---- MODULE Spec2Model ----
(***************************************************************************)
(* Youtube_recorder: the recording run of Orchestrator.ejecutar, the       *)
(* single-video flow of VideoProcessor.procesar_video with FileManager,    *)
(* the OBSManager methods against OBS Studio, and the URL-file parser and  *)
(* test-mode limits of URLProcessor / url_filters.                         *)
(*                                                                         *)
(* OBS Studio, the browser and the file system are the environment: what   *)
(* they answer is drawn with \E from the outcomes the calls can have.      *)
(* OBS is recording or not (obs_activa).  For every call the program makes *)
(* the environment decides whether OBS is reachable (up), whether the      *)
(* connection drops right after the get_version of the call (cae), and     *)
(* whether OBS obeys the start/stop requests of the call or rejects them   *)
(* (obedece): failures are transient, one call at a time.                  *)
(***************************************************************************)
EXTENDS Integers, Sequences, FiniteSets, TLC

(* ------------------------------ bounds -------------------------------- *)
MaxModulos == 2   \* modules in the module map of a run
MaxVideos == 2    \* URLs of one module
MaxUrls == 2      \* URLs of a run, all modules together

(* ------------------------- program constants -------------------------- *)
MAX_SONDEOS == 10        \* while intentos_verificacion < 10
MAX_INTENTOS == 5        \* _esperar_archivo(max_intentos=5), range(5)
MARGEN_INICIAL == 4
MARGEN_FINAL == 4
MARGEN_INICIAL_PRUEBA == 1
MARGEN_FINAL_PRUEBA == 1
DURACION_POR_DEFECTO == 60
INTERVALO == 2           \* monitorear_reproduccion(intervalo=2)

None == "None"

VARIABLES
  obs_activa,                        \* OBS Studio: output_active
  cliente_obs, conectado,            \* OBSManager
  driver,                            \* BrowserManager
  cfg,                               \* config.py values of this run
  pc, modulos, carpetas, im, iv,     \* Orchestrator: position, module map, loops
  duracion_segundos, ruta_original,  \* locals of the video being processed
  estadisticas,                      \* Orchestrator.estadisticas
  pendiente, retorno,                \* exception in flight, return value
  ult,                               \* the last call made and what it did
  vid,                               \* what has happened to the current video
  hist,                              \* what has happened in the run
  pasos,                             \* procesar_video: the steps taken
  archivo, self_modulos, fn          \* URL file, URLProcessor.modulos, a function call

vars == <<obs_activa, cliente_obs, conectado, driver, cfg,
          pc, modulos, carpetas, im, iv, duracion_segundos, ruta_original,
          estadisticas, pendiente, retorno, ult, vid, hist, pasos,
          archivo, self_modulos, fn>>

varsOBS == <<obs_activa, cliente_obs, conectado>>
varsURL == <<archivo, self_modulos, fn>>

(* ------------------------------ OBSManager ---------------------------- *)
\* The manager's fields, the state of OBS Studio and what OBS and the network
\* do during one call, as one value.
Est(up, obedece) ==
  [conectado |-> conectado, cliente |-> cliente_obs, activa |-> obs_activa,
   up |-> up, obedece |-> obedece]

\* The connection drops right after the get_version of verificar_conexion.
Caer(s, cae) == [s EXCEPT !.up = s.up /\ ~cae]

\* OBSManager.verificar_conexion
verificar_conexion(s) ==
  IF ~s.conectado \/ s.cliente = None THEN [ret |-> FALSE, s |-> s]
  ELSE IF s.up THEN [ret |-> TRUE, s |-> s]
  ELSE [ret |-> FALSE, s |-> [s EXCEPT !.conectado = FALSE]]

\* cliente_obs.stop_record() on a reachable OBS that is recording: an obeying
\* OBS stops, another one rejects the request (the call raises).
stop_record(s) == [s EXCEPT !.activa = s.activa /\ ~s.obedece]

\* OBSManager.asegurar_grabacion_detenida
asegurar_grabacion_detenida(s, cae) ==
  LET v == verificar_conexion(s) IN
  IF ~v.ret THEN [s |-> v.s, stops |-> 0]
  ELSE LET s1 == Caer(v.s, cae) IN
       IF s1.up /\ s1.activa
       THEN [s |-> stop_record(s1), stops |-> 1]
       ELSE [s |-> s1, stops |-> 0]

\* OBSManager.detener_grabacion.  ruta_stop: the answer of stop_record carries
\* output_path; ruta_estado: the answer of get_record_status carries it;
\* lento: the recording is still active 2 s after the first stop_record.
detener_grabacion(s, cae, ruta_stop, ruta_estado, lento) ==
  LET v == verificar_conexion(s) IN
  IF ~v.ret THEN [s |-> v.s, ret |-> None, stops |-> 0]
  ELSE
    LET s1 == Caer(v.s, cae) IN
    IF ~s1.up THEN [s |-> s1, ret |-> None, stops |-> 0]
    ELSE IF ~s1.activa
    THEN [s |-> s1, ret |-> IF ruta_estado THEN "ruta" ELSE None, stops |-> 0]
    ELSE IF ~s1.obedece
    THEN \* stop_record raises: the path is looked up in the status only
         [s |-> s1, ret |-> IF ruta_estado THEN "ruta" ELSE None, stops |-> 1]
    ELSE [s |-> stop_record(s1),
          ret |-> IF ruta_stop \/ ruta_estado THEN "ruta" ELSE None,
          stops |-> IF lento THEN 2 ELSE 1]

\* The verification loop of iniciar_grabacion: poll get_record_status until it
\* reports output_active or MAX_SONDEOS polls were made.  activa_en[k] is what
\* poll k answers (FALSE also stands for a poll that raised).
RECURSIVE Sondear(_, _)
Sondear(intentos_verificacion, activa_en) ==
  IF intentos_verificacion >= MAX_SONDEOS
  THEN [visto |-> FALSE, sondeos |-> intentos_verificacion]
  ELSE IF activa_en[intentos_verificacion + 1]
       THEN [visto |-> TRUE, sondeos |-> intentos_verificacion + 1]
       ELSE Sondear(intentos_verificacion + 1, activa_en)

\* How many polls an obeying OBS answers "not active" before the recording
\* it was asked for is active: none, all but the last, all.
Retrasos == {0, MAX_SONDEOS - 1, MAX_SONDEOS}

\* OBSManager.iniciar_grabacion.  retraso: see Retrasos.
iniciar_grabacion(s, cae, retraso, lento) ==
  LET v == verificar_conexion(s) IN
  IF ~v.ret
  THEN [s |-> v.s, ret |-> FALSE, visto |-> FALSE, sondeos |-> 0, stops |-> 0]
  ELSE
    LET s1 == Caer(v.s, cae)
        previa == s1.up /\ s1.activa
        d == IF previa THEN detener_grabacion(s1, FALSE, FALSE, FALSE, lento)
             ELSE [s |-> s1, ret |-> None, stops |-> 0]
        s2 == d.s
        arranca == s2.up /\ s2.obedece /\ ~s2.activa
        activa_en == [k \in 1..MAX_SONDEOS |->
                        s2.up /\ (s2.activa \/ (arranca /\ k > retraso))]
        p == Sondear(0, activa_en)
    IN [s |-> [s2 EXCEPT !.activa = s2.activa \/ arranca],
        ret |-> TRUE, visto |-> p.visto, sondeos |-> p.sondeos,
        stops |-> d.stops]

\* OBSManager.configurar_directorio_grabacion; falla: set_record_directory
\* raises on a reachable OBS.
configurar_directorio_grabacion(s, cae, falla) ==
  LET v == verificar_conexion(s) IN
  IF ~v.ret THEN [s |-> v.s, ret |-> FALSE]
  ELSE LET s1 == Caer(v.s, cae) IN
       [s |-> s1, ret |-> s1.up /\ ~falla]

\* OBSManager.conectar: the client is created, then get_version is asked.
conectar(s, cae) ==
  IF ~s.up THEN [s |-> s, ret |-> FALSE]
  ELSE LET s1 == Caer([s EXCEPT !.cliente = "cliente"], cae) IN
       IF s1.up THEN [s |-> [s1 EXCEPT !.conectado = TRUE], ret |-> TRUE]
       ELSE [s |-> s1, ret |-> FALSE]

\* OBSManager.mostrar_informacion_escenas
mostrar_informacion_escenas(s, cae) ==
  LET v == verificar_conexion(s) IN
  IF ~v.ret THEN [s |-> v.s] ELSE [s |-> Caer(v.s, cae)]

\* OBSManager.desconectar
desconectar_si_conectado(s, cae) ==
  IF s.conectado
  THEN LET a == asegurar_grabacion_detenida(s, cae) IN
       [s |-> [a.s EXCEPT !.cliente = None, !.conectado = FALSE],
        stops |-> a.stops]
  ELSE [s |-> s, stops |-> 0]

desconectar(s, cae) ==
  IF s.cliente # None
  THEN LET a == asegurar_grabacion_detenida(s, cae) IN
       [s |-> [a.s EXCEPT !.cliente = None, !.conectado = FALSE],
        stops |-> a.stops]
  ELSE [s |-> s, stops |-> 0]

\* The new state of the manager and of OBS after a call.
Poner(s) ==
  /\ conectado' = s.conectado
  /\ cliente_obs' = s.cliente
  /\ obs_activa' = s.activa

(* ----------------------------- BrowserManager ------------------------- *)
\* BrowserManager.monitorear_reproduccion: the seconds slept in the loop.
RECURSIVE Dormir_sin_min(_, _, _)
Dormir_sin_min(tiempo_transcurrido, duracion, intervalo) ==
  IF tiempo_transcurrido < duracion
  THEN Dormir_sin_min(tiempo_transcurrido + intervalo, duracion, intervalo)
  ELSE tiempo_transcurrido

RECURSIVE Dormir(_, _, _)
Dormir(tiempo_transcurrido, duracion, intervalo) ==
  IF tiempo_transcurrido < duracion
  THEN LET tiempo_restante == duracion - tiempo_transcurrido
           tiempo_dormir == IF intervalo < tiempo_restante THEN intervalo
                            ELSE tiempo_restante
       IN Dormir(tiempo_transcurrido + tiempo_dormir, duracion, intervalo)
  ELSE tiempo_transcurrido

monitorear_reproduccion(drv, duracion, intervalo) ==
  IF drv = None THEN 0 ELSE Dormir(0, duracion, intervalo)

\* BrowserManager.cerrar_navegador
cerrar_navegador(drv) == None

(* ------------------------------- config ------------------------------- *)
NoneInt == -1   \* None of an optional integer setting
Truthy(x) == x # NoneInt /\ x # 0

margen_inicial(c) == IF c.MODO_PRUEBA THEN MARGEN_INICIAL_PRUEBA ELSE MARGEN_INICIAL
margen_final(c) == IF c.MODO_PRUEBA THEN MARGEN_FINAL_PRUEBA ELSE MARGEN_FINAL

Min(a, b) == IF a < b THEN a ELSE b

\* The duration recorded for a video: what the browser reported (0: nothing),
\* 60 s by default, capped by DURACION_MAXIMA_PRUEBA in test mode.
duracion_efectiva(c, obtenida) ==
  LET d == IF obtenida = 0 THEN DURACION_POR_DEFECTO ELSE obtenida IN
  IF c.MODO_PRUEBA /\ Truthy(c.DURACION_MAXIMA_PRUEBA)
  THEN Min(d, c.DURACION_MAXIMA_PRUEBA) ELSE d

(* ------------------------------ file handling ------------------------- *)
\* ruta.exists() at the n-th check of one call: the recorded file shows up at
\* check number aparece and stays (MAX_INTENTOS + 3: it never shows up).
existe(n, aparece) == n >= aparece

Apariciones == 1..(MAX_INTENTOS + 3)

\* The waiting loop "for espera in range(max_intentos)": check number
\* espera + 2 is made after each sleep.
RECURSIVE BucleEspera(_, _, _)
BucleEspera(espera, aparece, max_intentos) ==
  IF espera >= max_intentos THEN [ret |-> FALSE, checks |-> max_intentos + 1]
  ELSE IF existe(espera + 2, aparece) THEN [ret |-> TRUE, checks |-> espera + 2]
       ELSE BucleEspera(espera + 1, aparece, max_intentos)

\* FileManager._esperar_archivo
esperar_archivo_ciego(aparece, max_intentos) == [ret |-> TRUE, checks |-> 1]

esperar_archivo(aparece, max_intentos) ==
  IF existe(1, aparece) THEN [ret |-> TRUE, checks |-> 1]
  ELSE BucleEspera(0, aparece, max_intentos)

\* Orchestrator._gestionar_archivo_grabado, lines 430-440: the same loop, then
\* one more exists() decides.
esperar_archivo_orq(aparece) ==
  LET b == IF existe(1, aparece) THEN [ret |-> TRUE, checks |-> 1]
           ELSE BucleEspera(0, aparece, MAX_INTENTOS)
  IN [ret |-> existe(b.checks + 1, aparece), checks |-> b.checks + 1]

\* The update of the statistics after a verified rename.
actualizar_estadisticas_sin_duracion(e, duracion, tamano, nueva_ruta) ==
  [videos_grabados |-> e.videos_grabados + 1,
   duracion_total_segundos |-> e.duracion_total_segundos,
   tamano_total_bytes |-> e.tamano_total_bytes + tamano,
   archivos_grabados |-> Append(e.archivos_grabados, nueva_ruta)]

actualizar_estadisticas(e, duracion, tamano, nueva_ruta) ==
  [videos_grabados |-> e.videos_grabados + 1,
   duracion_total_segundos |-> e.duracion_total_segundos + duracion,
   tamano_total_bytes |-> e.tamano_total_bytes + tamano,
   archivos_grabados |-> Append(e.archivos_grabados, nueva_ruta)]

\* What the file system does to one call: q.aparece (see existe), q.exc
\* (exists() raises OSError), q.destino_existia (nueva_ruta.exists() before
\* the rename), q.unlink_falla, q.rename_falla (rename raises: the file went
\* away or is still held by OBS), q.dest_tras (nueva_ruta.exists() after the
\* rename), q.tamano (st_size).
Tamanos == {2}
Disco ==
  [aparece : Apariciones, exc : BOOLEAN, destino_existia : BOOLEAN,
   unlink_falla : BOOLEAN, rename_falla : BOOLEAN, dest_tras : BOOLEAN,
   tamano : Tamanos]

\* FileManager._renombrar_archivo
renombrar_archivo(e, nueva_ruta, duracion, q) ==
  IF q.rename_falla THEN [ret |-> FALSE, est |-> e, rename_ok |-> FALSE]
  ELSE IF q.dest_tras
       THEN [ret |-> TRUE, rename_ok |-> TRUE,
             est |-> actualizar_estadisticas(e, duracion, q.tamano, nueva_ruta)]
       ELSE [ret |-> FALSE, est |-> e, rename_ok |-> TRUE]

\* The part of both gestionar methods after the file was found.
TrasEncontrar(e, nueva_ruta, duracion, q, w) ==
  LET r == renombrar_archivo(e, nueva_ruta, duracion, q) IN
  [ret |-> r.ret, exc |-> FALSE, checks |-> w.checks,
   visto |-> existe(w.checks, q.aparece),
   unlink |-> q.destino_existia, rename |-> TRUE, rename_ok |-> r.rename_ok,
   dest_existe |-> r.rename_ok /\ q.dest_tras,
   contado |-> r.est # e, tamano |-> q.tamano, est |-> r.est]

SinEncontrar(e, q, w, exc) ==
  [ret |-> FALSE, exc |-> exc, checks |-> w.checks, visto |-> FALSE,
   unlink |-> FALSE, rename |-> FALSE, rename_ok |-> FALSE,
   dest_existe |-> FALSE, contado |-> FALSE, tamano |-> q.tamano, est |-> e]

\* FileManager.gestionar_archivo_grabado
gestionar_archivo_grabado_sin_espera(e, nueva_ruta, duracion, q) ==
  [SinEncontrar(e, q, [checks |-> 0], FALSE) EXCEPT !.ret = TRUE]

gestionar_archivo_grabado(e, nueva_ruta, duracion, q) ==
  IF q.exc THEN SinEncontrar(e, q, [checks |-> 1], TRUE)
  ELSE LET w == esperar_archivo(q.aparece, MAX_INTENTOS) IN
       IF ~w.ret THEN SinEncontrar(e, q, w, FALSE)
       ELSE TrasEncontrar(e, nueva_ruta, duracion, q, w)

\* Orchestrator._gestionar_archivo_grabado
gestionar_archivo_grabado_orq(e, nueva_ruta, duracion, q) ==
  IF q.exc THEN SinEncontrar(e, q, [checks |-> 1], TRUE)
  ELSE LET w == esperar_archivo_orq(q.aparece) IN
       IF ~w.ret THEN SinEncontrar(e, q, w, FALSE)
       ELSE TrasEncontrar(e, nueva_ruta, duracion, q, w)

\* Orchestrator._mostrar_resumen_final: the size found in the folders of the
\* processed modules replaces the counted one when it is greater.
mostrar_resumen_final(e, tamano_total_calculado) ==
  IF tamano_total_calculado > e.tamano_total_bytes
  THEN [e EXCEPT !.tamano_total_bytes = tamano_total_calculado]
  ELSE e

\* Orchestrator._limpiar_recursos
limpiar_recursos(s, drv, cae1, cae2) ==
  LET a == asegurar_grabacion_detenida(s, cae1)
      d == desconectar(a.s, cae2)
  IN [s |-> d.s, driver |-> cerrar_navegador(drv), stops |-> a.stops + d.stops]

(* --------------------------- bookkeeping ------------------------------ *)
EstNulo ==
  [conectado |-> FALSE, cliente |-> None, up |-> FALSE, activa |-> FALSE,
   obedece |-> FALSE]

\* The record of a call: which one, from where, and what it saw and did.
U(op) ==
  [op |-> op, ret |-> FALSE, ruta |-> None, visto |-> FALSE, sondeos |-> 0,
   stops |-> 0, pre |-> EstNulo, post |-> EstNulo, exc |-> FALSE,
   checks |-> 0, existe |-> FALSE, unlink |-> FALSE, rename |-> FALSE,
   rename_ok |-> FALSE, dest_existe |-> FALSE, contado |-> FALSE,
   tamano |-> 0, dormido |-> 0]

VidNuevo ==
  [ini |-> FALSE, carga |-> "no", monitoreado |-> -1, margen |-> FALSE]

Pares == (1..MaxModulos) \X (1..MaxVideos)

HistNuevo ==
  [obs_conecto |-> FALSE, nav_inicializado |-> FALSE, interrumpido |-> FALSE,
   intentos |-> [p \in Pares |-> 0], configurados |-> {},
   intentados |-> {}, contados |-> <<>>, en_bucle |-> FALSE]

EstadisticasIniciales ==
  [videos_grabados |-> 0, duracion_total_segundos |-> 0,
   tamano_total_bytes |-> 0, archivos_grabados |-> <<>>]

(* ------------------- Orchestrator: the loops' control ------------------ *)
\* Where the run goes after module m: the next module of the map, or out of
\* _procesar_modulos into the finally block of ejecutar.
SiguienteModulo(mods, m) ==
  IF m < Len(mods) THEN [pc |-> "modulo", im |-> m + 1, iv |-> 0]
  ELSE [pc |-> "resumen", im |-> m, iv |-> 0]

\* "for i, url in enumerate(urls, 1)": after video v of module m.
SiguienteVideo_break(mods, m, v) == SiguienteModulo(mods, m)

SiguienteVideo(mods, m, v) ==
  IF v < mods[m] THEN [pc |-> "iniciar", im |-> m, iv |-> v + 1]
  ELSE SiguienteModulo(mods, m)

Ir(pos) ==
  /\ pc' = pos.pc
  /\ im' = pos.im
  /\ iv' = pos.iv

(* ----------------------------- BrowserManager calls -------------------- *)
\* BrowserManager.inicializar_navegador; res is what the browser does.
ResNavegador == {"ok", "sin_driver", "no_responde", "excepcion"}
inicializar_navegador(drv, res) ==
  CASE res = "ok" -> [ret |-> TRUE, driver |-> "driver"]
    [] res = "sin_driver" -> [ret |-> FALSE, driver |-> None]
    [] res = "no_responde" -> [ret |-> FALSE, driver |-> "driver"]
    [] OTHER -> [ret |-> FALSE, driver |-> drv]

\* BrowserManager.cargar_url; "reinicio_falla": window_handles raised and the
\* reconnection found no browser.
ResCarga == {"ok", "falla", "reinicio_falla"}
cargar_url(drv, res) ==
  IF drv = None THEN [ret |-> FALSE, driver |-> None]
  ELSE CASE res = "ok" -> [ret |-> TRUE, driver |-> drv]
         [] res = "falla" -> [ret |-> FALSE, driver |-> drv]
         [] OTHER -> [ret |-> FALSE, driver |-> None]

Duraciones == {0, 3}      \* obtener_duracion_video_continuo: 0 is None
TamanosCarpeta == {0, 9}  \* bytes found in the folders by the final summary

(* --------------------------- Orchestrator.ejecutar --------------------- *)
RECURSIVE Suma(_)
Suma(f) == IF f = <<>> THEN 0 ELSE f[1] + Suma(Tail(f))

\* The module maps of a run: the number of URLs of each module, in file order.
Mapas ==
  {f \in UNION {[1..n -> 0..MaxVideos] : n \in 1..MaxModulos} :
     Suma(f) <= MaxUrls}

\* The settings a run is made with: the normal mode, and the test mode with
\* the duration capped.
CfgsRun ==
  {[MODO_PRUEBA |-> FALSE, MAX_MODULOS_PRUEBA |-> NoneInt,
    MAX_VIDEOS_POR_MODULO_PRUEBA |-> NoneInt,
    DURACION_MAXIMA_PRUEBA |-> NoneInt],
   [MODO_PRUEBA |-> TRUE, MAX_MODULOS_PRUEBA |-> NoneInt,
    MAX_VIDEOS_POR_MODULO_PRUEBA |-> NoneInt, DURACION_MAXIMA_PRUEBA |-> 2]}

InitComun ==
  /\ obs_activa \in BOOLEAN
  /\ cliente_obs = None /\ conectado = FALSE
  /\ driver = None
  /\ carpetas = {} /\ im = 0 /\ iv = 0
  /\ duracion_segundos = 0 /\ ruta_original = None
  /\ estadisticas = EstadisticasIniciales
  /\ pendiente = "no" /\ retorno = FALSE
  /\ ult = U("-") /\ vid = VidNuevo /\ hist = HistNuevo
  /\ pasos = <<>>

InitURLNulo ==
  /\ archivo = <<>> /\ self_modulos = <<>>
  /\ fn = [arg |-> <<>>, arg_tras |-> <<>>, res |-> <<>>, hecho |-> FALSE]

Init ==
  /\ InitComun /\ InitURLNulo
  /\ cfg \in CfgsRun
  /\ modulos \in Mapas
  /\ pc = "parsear"

Fin(r) == pc' = "fin" /\ retorno' = r /\ UNCHANGED <<im, iv>>

\* ejecutar, step 1: parsear_archivo_urls and aplicar_limites_prueba gave the
\* module map of this run, or nothing.
Parsear ==
  /\ pc = "parsear"
  /\ \E ok \in BOOLEAN :
       IF ok THEN pc' = "carpetas" /\ UNCHANGED <<retorno, im, iv>>
       ELSE Fin(FALSE)
  /\ ult' = U("parsear_archivo_urls")
  /\ UNCHANGED <<driver, cfg, modulos, carpetas, duracion_segundos,
                 ruta_original, estadisticas, pendiente, vid, hist, pasos>>
  /\ UNCHANGED varsOBS /\ UNCHANGED varsURL

\* ejecutar, step 2: crear_estructura_carpetas makes a folder for the modules
\* that have URLs, those whose mkdir fails left out.
CrearCarpetas ==
  /\ pc = "carpetas"
  /\ \E c \in SUBSET {m \in 1..Len(modulos) : modulos[m] > 0} :
       /\ carpetas' = c
       /\ IF c = {} THEN Fin(FALSE)
          ELSE pc' = "conectar" /\ UNCHANGED <<retorno, im, iv>>
  /\ ult' = U("crear_estructura_carpetas")
  /\ UNCHANGED <<driver, cfg, modulos, duracion_segundos, ruta_original,
                 estadisticas, pendiente, vid, hist, pasos>>
  /\ UNCHANGED varsOBS /\ UNCHANGED varsURL

\* ejecutar, step 3: obs_manager.conectar()
Conectar ==
  /\ pc = "conectar"
  /\ \E up \in BOOLEAN, obedece \in BOOLEAN, cae \in BOOLEAN :
       LET r == conectar(Est(up, obedece), cae) IN
       /\ Poner(r.s)
       /\ hist' = [hist EXCEPT !.obs_conecto = r.ret]
       /\ ult' = [U("conectar") EXCEPT !.ret = r.ret]
       /\ IF r.ret THEN pc' = "escenas" /\ UNCHANGED <<retorno, im, iv>>
          ELSE Fin(FALSE)
  /\ UNCHANGED <<driver, cfg, modulos, carpetas, duracion_segundos,
                 ruta_original, estadisticas, pendiente, vid, pasos>>
  /\ UNCHANGED varsURL

MostrarEscenas ==
  /\ pc = "escenas"
  /\ \E up \in BOOLEAN, obedece \in BOOLEAN, cae \in BOOLEAN :
       Poner(mostrar_informacion_escenas(Est(up, obedece), cae).s)
  /\ pc' = "navegador"
  /\ ult' = U("mostrar_informacion_escenas")
  /\ UNCHANGED <<driver, cfg, modulos, carpetas, im, iv, duracion_segundos,
                 ruta_original, estadisticas, pendiente, retorno, vid, hist,
                 pasos>>
  /\ UNCHANGED varsURL

\* ejecutar, step 4: browser_manager.inicializar_navegador()
InicializarNavegador ==
  /\ pc = "navegador"
  /\ \E res \in ResNavegador :
       LET r == inicializar_navegador(driver, res) IN
       /\ driver' = r.driver
       /\ hist' = [hist EXCEPT !.nav_inicializado = r.ret]
       /\ ult' = [U("inicializar_navegador") EXCEPT !.ret = r.ret]
       /\ pc' = IF r.ret THEN "modulos" ELSE "desconectar_nav"
  /\ UNCHANGED <<cfg, modulos, carpetas, im, iv, duracion_segundos,
                 ruta_original, estadisticas, pendiente, retorno, vid, pasos>>
  /\ UNCHANGED varsOBS /\ UNCHANGED varsURL

\* ejecutar, lines 130-133: without a browser, disconnect and give up.
DesconectarSinNavegador ==
  /\ pc = "desconectar_nav"
  /\ \E up \in BOOLEAN, obedece \in BOOLEAN, cae \in BOOLEAN :
       LET d == desconectar(Est(up, obedece), cae) IN
       /\ Poner(d.s)
       /\ ult' = [U("desconectar") EXCEPT !.stops = d.stops]
  /\ Fin(FALSE)
  /\ UNCHANGED <<driver, cfg, modulos, carpetas, duracion_segundos,
                 ruta_original, estadisticas, pendiente, vid, hist, pasos>>
  /\ UNCHANGED varsURL

(* --------------------- Orchestrator._procesar_modulos ------------------ *)
\* Entering _procesar_modulos: Path.cwd() can raise.
EntrarModulos ==
  /\ pc = "modulos"
  /\ \E cwd_falla \in BOOLEAN :
       IF cwd_falla
       THEN /\ pendiente' = "Exception" /\ pc' = "resumen"
            /\ UNCHANGED <<im, iv, hist>>
       ELSE /\ Ir([pc |-> "modulo", im |-> 1, iv |-> 0])
            /\ hist' = [hist EXCEPT !.en_bucle = TRUE]
            /\ UNCHANGED pendiente
  /\ ult' = U("_procesar_modulos")
  /\ UNCHANGED <<driver, cfg, modulos, carpetas, duracion_segundos,
                 ruta_original, estadisticas, retorno, vid, pasos>>
  /\ UNCHANGED varsOBS /\ UNCHANGED varsURL

\* One turn of "for nombre_modulo, urls in modulos.items()" up to the call of
\* _procesar_videos_modulo: folder lookup and configurar_directorio_grabacion.
ProcesarModulo ==
  /\ pc = "modulo"
  /\ IF im \notin carpetas
     THEN /\ Ir(SiguienteModulo(modulos, im))
          /\ hist' = [hist EXCEPT !.intentados = @ \cup {im}]
          /\ ult' = U("carpetas.get")
          /\ UNCHANGED varsOBS
     ELSE \E up \in BOOLEAN, obedece \in BOOLEAN, cae \in BOOLEAN,
             falla \in BOOLEAN :
            LET r == configurar_directorio_grabacion(Est(up, obedece), cae,
                                                     falla) IN
            /\ Poner(r.s)
            /\ ult' = [U("configurar_directorio_grabacion") EXCEPT
                         !.ret = r.ret]
            /\ hist' = [hist EXCEPT
                          !.intentados = @ \cup {im},
                          !.configurados = IF r.ret THEN @ \cup {im} ELSE @]
            /\ IF r.ret THEN Ir([pc |-> "iniciar", im |-> im, iv |-> 1])
               ELSE Ir(SiguienteModulo(modulos, im))
  /\ UNCHANGED <<driver, cfg, modulos, carpetas, duracion_segundos,
                 ruta_original, estadisticas, pendiente, retorno, vid, pasos>>
  /\ UNCHANGED varsURL

(* ------------------ Orchestrator._procesar_videos_modulo --------------- *)
\* PASO 1: obs_manager.iniciar_grabacion(); on False the video is skipped.
IniciarGrabacion ==
  /\ pc = "iniciar"
  /\ \E up \in BOOLEAN, obedece \in BOOLEAN, cae \in BOOLEAN,
        retraso \in Retrasos, lento \in BOOLEAN :
       LET r == iniciar_grabacion(Est(up, obedece), cae, retraso, lento) IN
       /\ Poner(r.s)
       /\ ult' = [U("iniciar_grabacion") EXCEPT
                    !.ret = r.ret, !.visto = r.visto, !.sondeos = r.sondeos]
       /\ vid' = [VidNuevo EXCEPT !.ini = r.ret]
       /\ IF r.ret THEN pc' = "margen_inicial" /\ UNCHANGED <<im, iv>>
          ELSE Ir(SiguienteVideo(modulos, im, iv))
  /\ hist' = [hist EXCEPT !.intentos[<<im, iv>>] = @ + 1]
  /\ duracion_segundos' = 0 /\ ruta_original' = None
  /\ UNCHANGED <<driver, cfg, modulos, carpetas, estadisticas, pendiente,
                 retorno, pasos>>
  /\ UNCHANGED varsURL

\* PASO 2: time.sleep(margen_inicial)
EsperarMargenInicial ==
  /\ pc = "margen_inicial"
  /\ pc' = "cargar"
  /\ ult' = [U("sleep") EXCEPT !.dormido = margen_inicial(cfg)]
  /\ UNCHANGED <<driver, cfg, modulos, carpetas, im, iv, duracion_segundos,
                 ruta_original, estadisticas, pendiente, retorno, vid, hist,
                 pasos>>
  /\ UNCHANGED varsOBS /\ UNCHANGED varsURL

\* PASO 3: browser_manager.cargar_url(url)
CargarUrl ==
  /\ pc = "cargar"
  /\ \E res \in ResCarga :
       LET r == cargar_url(driver, res) IN
       /\ driver' = r.driver
       /\ ult' = [U("cargar_url") EXCEPT !.ret = r.ret]
       /\ vid' = [vid EXCEPT !.carga = IF r.ret THEN "ok" ELSE "falla"]
       /\ pc' = IF r.ret THEN "reproducir" ELSE "detener_carga"
  /\ UNCHANGED <<cfg, modulos, carpetas, im, iv, duracion_segundos,
                 ruta_original, estadisticas, pendiente, retorno, hist, pasos>>
  /\ UNCHANGED varsOBS /\ UNCHANGED varsURL

\* Lines 283-285: the URL did not load; stop the recording and skip the video.
DetenerTrasCarga ==
  /\ pc = "detener_carga"
  /\ \E up \in BOOLEAN, obedece \in BOOLEAN, cae \in BOOLEAN,
        rs \in BOOLEAN, re \in BOOLEAN, lento \in BOOLEAN :
       LET r == detener_grabacion(Est(up, obedece), cae, rs, re, lento) IN
       /\ Poner(r.s)
       /\ ult' = [U("detener_grabacion") EXCEPT
                    !.ruta = r.ret, !.stops = r.stops]
  /\ Ir(SiguienteVideo(modulos, im, iv))
  /\ UNCHANGED <<driver, cfg, modulos, carpetas, duracion_segundos,
                 ruta_original, estadisticas, pendiente, retorno, vid, hist,
                 pasos>>
  /\ UNCHANGED varsURL

\* PASO 4: browser_manager.reproducir_video(); its result is only logged.
ReproducirVideo ==
  /\ pc = "reproducir"
  /\ \E ok \in BOOLEAN : ult' = [U("reproducir_video") EXCEPT !.ret = ok]
  /\ pc' = "pantalla"
  /\ UNCHANGED <<driver, cfg, modulos, carpetas, im, iv, duracion_segundos,
                 ruta_original, estadisticas, pendiente, retorno, vid, hist,
                 pasos>>
  /\ UNCHANGED varsOBS /\ UNCHANGED varsURL

\* PASO 5: browser_manager.configurar_pantalla_completa(); only logged.
PantallaCompleta ==
  /\ pc = "pantalla"
  /\ \E ok \in BOOLEAN :
       ult' = [U("configurar_pantalla_completa") EXCEPT !.ret = ok]
  /\ pc' = "info"
  /\ UNCHANGED <<driver, cfg, modulos, carpetas, im, iv, duracion_segundos,
                 ruta_original, estadisticas, pendiente, retorno, vid, hist,
                 pasos>>
  /\ UNCHANGED varsOBS /\ UNCHANGED varsURL

\* PASO 6: title and duration; the duration gets its default and its cap.
ObtenerInformacion ==
  /\ pc = "info"
  /\ \E obtenida \in Duraciones :
       duracion_segundos' = duracion_efectiva(cfg, obtenida)
  /\ pc' = "monitorear"
  /\ ult' = U("obtener_duracion_video_continuo")
  /\ UNCHANGED <<driver, cfg, modulos, carpetas, im, iv, ruta_original,
                 estadisticas, pendiente, retorno, vid, hist, pasos>>
  /\ UNCHANGED varsOBS /\ UNCHANGED varsURL

\* PASO 7: browser_manager.monitorear_reproduccion(duracion_segundos)
Monitorear ==
  /\ pc = "monitorear"
  /\ LET t == monitorear_reproduccion(driver, duracion_segundos, INTERVALO) IN
       /\ vid' = [vid EXCEPT !.monitoreado = t]
       /\ ult' = [U("monitorear_reproduccion") EXCEPT !.dormido = t]
  /\ pc' = "margen_final"
  /\ UNCHANGED <<driver, cfg, modulos, carpetas, im, iv, duracion_segundos,
                 ruta_original, estadisticas, pendiente, retorno, hist, pasos>>
  /\ UNCHANGED varsOBS /\ UNCHANGED varsURL

\* PASO 8: time.sleep(margen_final)
EsperarMargenFinal ==
  /\ pc = "margen_final"
  /\ vid' = [vid EXCEPT !.margen = TRUE]
  /\ ult' = [U("sleep") EXCEPT !.dormido = margen_final(cfg)]
  /\ pc' = "detener"
  /\ UNCHANGED <<driver, cfg, modulos, carpetas, im, iv, duracion_segundos,
                 ruta_original, estadisticas, pendiente, retorno, hist, pasos>>
  /\ UNCHANGED varsOBS /\ UNCHANGED varsURL

\* PASO 9: obs_manager.detener_grabacion(); without a path nothing is renamed.
DetenerGrabacion ==
  /\ pc = "detener"
  /\ \E up \in BOOLEAN, obedece \in BOOLEAN, cae \in BOOLEAN,
        rs \in BOOLEAN, re \in BOOLEAN, lento \in BOOLEAN :
       LET r == detener_grabacion(Est(up, obedece), cae, rs, re, lento) IN
       /\ Poner(r.s)
       /\ ult' = [U("detener_grabacion") EXCEPT
                    !.ruta = r.ret, !.stops = r.stops]
       /\ ruta_original' = r.ret
       /\ pc' = IF r.ret # None THEN "gestionar" ELSE "asegurar"
  /\ UNCHANGED <<driver, cfg, modulos, carpetas, im, iv, duracion_segundos,
                 estadisticas, pendiente, retorno, vid, hist, pasos>>
  /\ UNCHANGED varsURL

\* self._gestionar_archivo_grabado(...); an OSError of exists() goes to the
\* except clauses of the loop.
GestionarArchivo ==
  /\ pc = "gestionar"
  /\ \E q \in Disco :
       LET g == gestionar_archivo_grabado_orq(estadisticas, <<im, iv>>,
                                              duracion_segundos, q) IN
       /\ estadisticas' = g.est
       /\ ult' = [U("_gestionar_archivo_grabado") EXCEPT
                    !.existe = g.visto, !.unlink = g.unlink,
                    !.rename = g.rename, !.rename_ok = g.rename_ok,
                    !.dest_existe = g.dest_existe, !.contado = g.contado,
                    !.tamano = g.tamano, !.exc = g.exc]
       /\ hist' = [hist EXCEPT
                     !.contados = IF g.contado
                                  THEN Append(@, duracion_segundos) ELSE @]
       /\ pc' = IF g.exc THEN "excepcion" ELSE "asegurar"
  /\ UNCHANGED <<driver, cfg, modulos, carpetas, im, iv, duracion_segundos,
                 ruta_original, pendiente, retorno, vid, pasos>>
  /\ UNCHANGED varsOBS /\ UNCHANGED varsURL

\* Lines 372-377: obs_manager.asegurar_grabacion_detenida()
AsegurarTrasVideo ==
  /\ pc = "asegurar"
  /\ \E up \in BOOLEAN, obedece \in BOOLEAN, cae \in BOOLEAN :
       LET a == asegurar_grabacion_detenida(Est(up, obedece), cae) IN
       /\ Poner(a.s)
       /\ ult' = [U("asegurar_grabacion_detenida") EXCEPT
                    !.stops = a.stops, !.pre = Est(up, obedece),
                    !.post = a.s]
  /\ pc' = "salir_pantalla"
  /\ UNCHANGED <<driver, cfg, modulos, carpetas, im, iv, duracion_segundos,
                 ruta_original, estadisticas, pendiente, retorno, vid, hist,
                 pasos>>
  /\ UNCHANGED varsURL

\* Lines 379-389: leave fullscreen, close the tab unless it is the last video.
SalirYCerrarPestana ==
  /\ pc = "salir_pantalla"
  /\ ult' = [U("cerrar_pestana_actual") EXCEPT !.ret = iv < modulos[im]]
  /\ Ir(SiguienteVideo(modulos, im, iv))
  /\ UNCHANGED <<driver, cfg, modulos, carpetas, duracion_segundos,
                 ruta_original, estadisticas, pendiente, retorno, vid, hist,
                 pasos>>
  /\ UNCHANGED varsOBS /\ UNCHANGED varsURL

\* Lines 391-402: both except clauses make sure the recording is stopped.
ManejarExcepcionVideo ==
  /\ pc = "excepcion"
  /\ \E up \in BOOLEAN, obedece \in BOOLEAN, cae \in BOOLEAN :
       LET a == asegurar_grabacion_detenida(Est(up, obedece), cae) IN
       /\ Poner(a.s)
       /\ ult' = [U("asegurar_grabacion_detenida") EXCEPT
                    !.stops = a.stops, !.pre = Est(up, obedece),
                    !.post = a.s]
  /\ Ir(SiguienteVideo(modulos, im, iv))
  /\ UNCHANGED <<driver, cfg, modulos, carpetas, duracion_segundos,
                 ruta_original, estadisticas, pendiente, retorno, vid, hist,
                 pasos>>
  /\ UNCHANGED varsURL

(* -------------------- ejecutar: finally and except --------------------- *)
\* Out of _procesar_modulos, by its end or by an exception: the loops'
\* variables and the locals of the video are gone.
FueraDelBucle ==
  /\ im' = 0 /\ iv' = 0
  /\ duracion_segundos' = 0 /\ ruta_original' = None
  /\ vid' = VidNuevo

\* What OBS can do during _limpiar_recursos: every request of it goes through
\* self.cliente_obs, so without a client nothing is asked and nothing answers.
Respuestas == IF cliente_obs = None THEN {FALSE} ELSE BOOLEAN

AntesDelTry == {"conectar", "escenas", "navegador", "desconectar_nav"}
EnElTry ==
  {"modulos", "modulo", "iniciar", "margen_inicial", "cargar", "detener_carga",
   "reproducir", "pantalla", "info", "monitorear", "margen_final", "detener",
   "gestionar", "asegurar", "salir_pantalla", "excepcion"}

\* Where a KeyboardInterrupt raised at position p is caught first.
DestinoInterrupcion(p) == IF p \in EnElTry THEN "resumen" ELSE "handler"

\* Ctrl-C while the program sleeps or waits for OBS or the browser.
Interrumpir ==
  /\ pc \in AntesDelTry \cup EnElTry \cup {"resumen"}
  /\ pc' = DestinoInterrupcion(pc)
  /\ pendiente' = "KeyboardInterrupt"
  /\ hist' = [hist EXCEPT !.interrumpido = TRUE]
  /\ ult' = U("KeyboardInterrupt")
  /\ FueraDelBucle
  /\ UNCHANGED <<driver, cfg, modulos, carpetas, estadisticas, retorno, pasos>>
  /\ UNCHANGED varsOBS /\ UNCHANGED varsURL

\* finally: self._mostrar_resumen_final(modulos_procesados); Path.cwd() can
\* raise, and then the except clauses of ejecutar take over.
MostrarResumenFinal ==
  /\ pc = "resumen"
  /\ \E falla \in BOOLEAN, calculado \in TamanosCarpeta :
       IF falla
       THEN /\ pendiente' = "Exception" /\ pc' = "handler"
            /\ UNCHANGED estadisticas
       ELSE /\ estadisticas' = mostrar_resumen_final(estadisticas, calculado)
            /\ pc' = "limpiar"
            /\ UNCHANGED pendiente
  /\ ult' = U("_mostrar_resumen_final")
  /\ FueraDelBucle
  /\ UNCHANGED <<driver, cfg, modulos, carpetas, retorno, hist, pasos>>
  /\ UNCHANGED varsOBS /\ UNCHANGED varsURL

\* finally: self._limpiar_recursos(); then "return True", or the exception
\* in flight reaches the except clauses.  ult.pre tells whether OBS stayed
\* reachable during the whole clean-up and whether it obeys stop_record.
LimpiarEnFinally ==
  /\ pc = "limpiar"
  /\ \E up \in Respuestas, obedece \in Respuestas, cae1 \in Respuestas,
        cae2 \in Respuestas :
       LET l == limpiar_recursos(Est(up, obedece), driver, cae1, cae2) IN
       /\ Poner(l.s)
       /\ driver' = l.driver
       /\ ult' = [U("_limpiar_recursos") EXCEPT
                    !.stops = l.stops,
                    !.pre = [EstNulo EXCEPT !.up = up /\ ~cae1 /\ ~cae2,
                                            !.obedece = obedece]]
  /\ IF pendiente = "no" THEN Fin(TRUE)
     ELSE pc' = "handler" /\ UNCHANGED <<retorno, im, iv>>
  /\ UNCHANGED <<cfg, modulos, carpetas, duracion_segundos, ruta_original,
                 estadisticas, pendiente, vid, hist, pasos>>
  /\ UNCHANGED varsURL

\* except KeyboardInterrupt / except Exception: _limpiar_recursos, return False
ManejarError ==
  /\ pc = "handler"
  /\ \E up \in Respuestas, obedece \in Respuestas, cae1 \in Respuestas,
        cae2 \in Respuestas :
       LET l == limpiar_recursos(Est(up, obedece), driver, cae1, cae2) IN
       /\ Poner(l.s)
       /\ driver' = l.driver
       /\ ult' = [U("_limpiar_recursos") EXCEPT
                    !.stops = l.stops,
                    !.pre = [EstNulo EXCEPT !.up = up /\ ~cae1 /\ ~cae2,
                                            !.obedece = obedece]]
  /\ Fin(FALSE)
  /\ UNCHANGED <<cfg, modulos, carpetas, duracion_segundos, ruta_original,
                 estadisticas, pendiente, vid, hist, pasos>>
  /\ UNCHANGED varsURL

Next ==
  \/ Parsear
  \/ CrearCarpetas
  \/ Conectar
  \/ MostrarEscenas
  \/ InicializarNavegador
  \/ DesconectarSinNavegador
  \/ EntrarModulos
  \/ ProcesarModulo
  \/ IniciarGrabacion
  \/ EsperarMargenInicial
  \/ CargarUrl
  \/ DetenerTrasCarga
  \/ ReproducirVideo
  \/ PantallaCompleta
  \/ ObtenerInformacion
  \/ Monitorear
  \/ EsperarMargenFinal
  \/ DetenerGrabacion
  \/ GestionarArchivo
  \/ AsegurarTrasVideo
  \/ SalirYCerrarPestana
  \/ ManejarExcepcionVideo
  \/ Interrumpir
  \/ MostrarResumenFinal
  \/ LimpiarEnFinally
  \/ ManejarError

Spec == Init /\ [][Next]_vars

TypeOK ==
  /\ obs_activa \in BOOLEAN
  /\ conectado \in BOOLEAN /\ cliente_obs \in {None, "cliente"}
  /\ driver \in {None, "driver"}

(* ------------- the two gestionar methods on their own ------------------ *)
MaxArchivos == 2   \* files handled in a row

DuracionesVideo == {2, 3, 60}

\* The gestionar methods read neither OBS nor the configuration.
InitFM ==
  /\ InitComun /\ InitURLNulo
  /\ ~obs_activa
  /\ cfg \in {c \in CfgsRun : ~c.MODO_PRUEBA}
  /\ modulos = <<MaxArchivos>>
  /\ pc = "fm"

\* The record of a call of one of the gestionar methods.
UGestion(op, g) ==
  [U(op) EXCEPT
     !.ret = g.ret, !.exc = g.exc, !.checks = g.checks, !.existe = g.visto,
     !.unlink = g.unlink, !.rename = g.rename, !.rename_ok = g.rename_ok,
     !.dest_existe = g.dest_existe, !.contado = g.contado,
     !.tamano = g.tamano]

\* FileManager.gestionar_archivo_grabado on the next recorded file.
FM_Gestionar ==
  /\ pc = "fm" /\ iv < MaxArchivos
  /\ \E q \in Disco, d \in DuracionesVideo :
       LET g == gestionar_archivo_grabado(estadisticas, <<1, iv + 1>>, d, q) IN
       /\ estadisticas' = g.est
       /\ duracion_segundos' = d
       /\ ult' = UGestion("gestionar_archivo_grabado", g)
  /\ iv' = iv + 1
  /\ UNCHANGED <<driver, cfg, pc, modulos, carpetas, im, ruta_original,
                 pendiente, retorno, vid, hist, pasos>>
  /\ UNCHANGED varsOBS /\ UNCHANGED varsURL

\* Orchestrator._gestionar_archivo_grabado on the next recorded file.
Orq_Gestionar ==
  /\ pc = "fm" /\ iv < MaxArchivos
  /\ \E q \in Disco, d \in DuracionesVideo :
       LET g == gestionar_archivo_grabado_orq(estadisticas, <<1, iv + 1>>, d,
                                              q) IN
       /\ estadisticas' = g.est
       /\ duracion_segundos' = d
       /\ ult' = UGestion("_gestionar_archivo_grabado", g)
  /\ iv' = iv + 1
  /\ UNCHANGED <<driver, cfg, pc, modulos, carpetas, im, ruta_original,
                 pendiente, retorno, vid, hist, pasos>>
  /\ UNCHANGED varsOBS /\ UNCHANGED varsURL

NextFM ==
  \/ FM_Gestionar
  \/ Orq_Gestionar

SpecFM == InitFM /\ [][NextFM]_vars

\* What is left alone by the specification of procesar_video.
SinRun == UNCHANGED <<cfg, modulos, carpetas, im, iv, pendiente, vid, hist>>

(* -------------------- VideoProcessor.procesar_video -------------------- *)
\* VideoProcessor._finalizar_grabacion: stop the recording; a path outside
\* the module folder (en_directorio false) is replaced by the most recent
\* video file of the folder when there is one (reciente); with a path, the
\* file manager takes over.
\* r: what OBS answers to the stop (cae, ruta_stop, ruta_estado, lento) and
\* what the folder holds (en_directorio, reciente).
finalizar_grabacion(s, r, e, nueva_ruta, duracion, q) ==
  LET d == detener_grabacion(s, r.cae, r.ruta_stop, r.ruta_estado, r.lento)
      ruta == IF d.ret # None /\ ~r.en_directorio /\ r.reciente
              THEN "reciente" ELSE d.ret
  IN IF ruta # None
     THEN [s |-> d.s, ruta |-> ruta, gestionado |-> TRUE,
           g |-> gestionar_archivo_grabado(e, nueva_ruta, duracion, q)]
     ELSE [s |-> d.s, ruta |-> ruta, gestionado |-> FALSE,
           g |-> SinEncontrar(e, q, [checks |-> 0], FALSE)]

\* The steps of procesar_video, in the order of a complete execution.
OrdenDePasos ==
  <<"configurar_directorio_grabacion", "iniciar_grabacion", "margen_inicial",
    "cargar_url", "reproducir_video", "configurar_pantalla_completa",
    "obtener_informacion", "monitorear_reproduccion", "margen_final",
    "detener_grabacion", "renombrar_archivo", "asegurar_grabacion_detenida",
    "salir_pantalla_completa", "cerrar_pestana_actual">>

\* The managers procesar_video is handed: an OBS manager that connected, its
\* flag possibly cleared since, and a browser manager with or without driver.
InitVP ==
  /\ InitURLNulo
  /\ obs_activa \in BOOLEAN
  /\ cliente_obs = "cliente" /\ conectado \in BOOLEAN
  /\ driver \in {None, "driver"}
  /\ cfg \in CfgsRun
  /\ modulos = <<1>> /\ carpetas = {1} /\ im = 1 /\ iv = 1
  /\ duracion_segundos = 0 /\ ruta_original = None
  /\ estadisticas = EstadisticasIniciales
  /\ pendiente = "no" /\ retorno = FALSE
  /\ ult = U("-") /\ vid = VidNuevo /\ hist = HistNuevo
  /\ pasos = <<>>
  /\ pc = "vp_configurar"

Paso(nombre) == pasos' = Append(pasos, nombre)
Retornar(r) == pc' = "vp_fin" /\ retorno' = r
Seguir(p) == pc' = p /\ UNCHANGED retorno

\* PASO 0: _configurar_directorio
VP_ConfigurarDirectorio ==
  /\ pc = "vp_configurar"
  /\ \E up \in BOOLEAN, obedece \in BOOLEAN, cae \in BOOLEAN,
        falla \in BOOLEAN :
       LET r == configurar_directorio_grabacion(Est(up, obedece), cae,
                                                falla) IN
       /\ Poner(r.s)
       /\ ult' = [U("configurar_directorio_grabacion") EXCEPT !.ret = r.ret]
       /\ IF r.ret THEN Seguir("vp_iniciar") ELSE Retornar(FALSE)
  /\ Paso("configurar_directorio_grabacion")
  /\ UNCHANGED <<driver, duracion_segundos, ruta_original, estadisticas>>
  /\ SinRun /\ UNCHANGED varsURL

\* PASO 1: _iniciar_grabacion
VP_IniciarGrabacion ==
  /\ pc = "vp_iniciar"
  /\ \E up \in BOOLEAN, obedece \in BOOLEAN, cae \in BOOLEAN,
        retraso \in Retrasos, lento \in BOOLEAN :
       LET r == iniciar_grabacion(Est(up, obedece), cae, retraso, lento) IN
       /\ Poner(r.s)
       /\ ult' = [U("iniciar_grabacion") EXCEPT
                    !.ret = r.ret, !.visto = r.visto, !.sondeos = r.sondeos]
       /\ IF r.ret THEN Seguir("vp_margen_inicial") ELSE Retornar(FALSE)
  /\ Paso("iniciar_grabacion")
  /\ UNCHANGED <<driver, duracion_segundos, ruta_original, estadisticas>>
  /\ SinRun /\ UNCHANGED varsURL

\* PASO 2: _esperar_margen_inicial sleeps when the margin is positive.
VP_EsperarMargenInicial ==
  /\ pc = "vp_margen_inicial"
  /\ ult' = [U("sleep") EXCEPT !.dormido = margen_inicial(cfg)]
  /\ IF margen_inicial(cfg) > 0 THEN Paso("margen_inicial")
     ELSE UNCHANGED pasos
  /\ Seguir("vp_cargar")
  /\ UNCHANGED <<driver, duracion_segundos, ruta_original, estadisticas>>
  /\ SinRun /\ UNCHANGED varsOBS /\ UNCHANGED varsURL

\* PASO 3: _cargar_url
VP_CargarUrl ==
  /\ pc = "vp_cargar"
  /\ \E res \in ResCarga :
       LET r == cargar_url(driver, res) IN
       /\ driver' = r.driver
       /\ ult' = [U("cargar_url") EXCEPT !.ret = r.ret]
       /\ Seguir(IF r.ret THEN "vp_reproducir" ELSE "vp_detener_carga")
  /\ Paso("cargar_url")
  /\ UNCHANGED <<duracion_segundos, ruta_original, estadisticas>>
  /\ SinRun /\ UNCHANGED varsOBS /\ UNCHANGED varsURL

\* Lines 93-95: the URL did not load: detener_grabacion, return False.
VP_DetenerTrasCarga ==
  /\ pc = "vp_detener_carga"
  /\ \E up \in BOOLEAN, obedece \in BOOLEAN, cae \in BOOLEAN,
        rs \in BOOLEAN, re \in BOOLEAN, lento \in BOOLEAN :
       LET r == detener_grabacion(Est(up, obedece), cae, rs, re, lento) IN
       /\ Poner(r.s)
       /\ ult' = [U("detener_grabacion") EXCEPT
                    !.ruta = r.ret, !.stops = r.stops]
  /\ Paso("detener_grabacion")
  /\ Retornar(FALSE)
  /\ UNCHANGED <<driver, duracion_segundos, ruta_original, estadisticas>>
  /\ SinRun /\ UNCHANGED varsURL

\* PASO 4: _reproducir_video
VP_ReproducirVideo ==
  /\ pc = "vp_reproducir"
  /\ \E ok \in BOOLEAN : ult' = [U("reproducir_video") EXCEPT !.ret = ok]
  /\ Paso("reproducir_video")
  /\ Seguir("vp_pantalla")
  /\ UNCHANGED <<driver, duracion_segundos, ruta_original, estadisticas>>
  /\ SinRun /\ UNCHANGED varsOBS /\ UNCHANGED varsURL

\* PASO 5: _configurar_pantalla_completa
VP_PantallaCompleta ==
  /\ pc = "vp_pantalla"
  /\ \E ok \in BOOLEAN :
       ult' = [U("configurar_pantalla_completa") EXCEPT !.ret = ok]
  /\ Paso("configurar_pantalla_completa")
  /\ Seguir("vp_info")
  /\ UNCHANGED <<driver, duracion_segundos, ruta_original, estadisticas>>
  /\ SinRun /\ UNCHANGED varsOBS /\ UNCHANGED varsURL

\* PASO 6: _obtener_informacion_video
VP_ObtenerInformacion ==
  /\ pc = "vp_info"
  /\ \E obtenida \in Duraciones :
       duracion_segundos' = duracion_efectiva(cfg, obtenida)
  /\ ult' = U("obtener_duracion_video_continuo")
  /\ Paso("obtener_informacion")
  /\ Seguir("vp_monitorear")
  /\ UNCHANGED <<driver, ruta_original, estadisticas>>
  /\ SinRun /\ UNCHANGED varsOBS /\ UNCHANGED varsURL

\* PASO 7: _monitorear_reproduccion
VP_Monitorear ==
  /\ pc = "vp_monitorear"
  /\ ult' = [U("monitorear_reproduccion") EXCEPT
               !.dormido = monitorear_reproduccion(driver, duracion_segundos,
                                                   INTERVALO)]
  /\ Paso("monitorear_reproduccion")
  /\ Seguir("vp_margen_final")
  /\ UNCHANGED <<driver, duracion_segundos, ruta_original, estadisticas>>
  /\ SinRun /\ UNCHANGED varsOBS /\ UNCHANGED varsURL

\* PASO 8: _esperar_margen_final
VP_EsperarMargenFinal ==
  /\ pc = "vp_margen_final"
  /\ ult' = [U("sleep") EXCEPT !.dormido = margen_final(cfg)]
  /\ IF margen_final(cfg) > 0 THEN Paso("margen_final") ELSE UNCHANGED pasos
  /\ Seguir("vp_finalizar")
  /\ UNCHANGED <<driver, duracion_segundos, ruta_original, estadisticas>>
  /\ SinRun /\ UNCHANGED varsOBS /\ UNCHANGED varsURL

\* PASO 9: _finalizar_grabacion; True lets the cleanup run, False is
\* returned at once, an OSError of exists() reaches "except Exception".
VP_FinalizarGrabacion ==
  /\ pc = "vp_finalizar"
  /\ \E up \in BOOLEAN, obedece \in BOOLEAN, q \in Disco,
        r \in [cae : BOOLEAN, ruta_stop : BOOLEAN, ruta_estado : BOOLEAN,
               lento : BOOLEAN, en_directorio : BOOLEAN, reciente : BOOLEAN] :
       LET f == finalizar_grabacion(Est(up, obedece), r, estadisticas,
                                    <<im, iv>>, duracion_segundos, q)
       IN
       /\ Poner(f.s)
       /\ ruta_original' = f.ruta
       /\ estadisticas' = f.g.est
       /\ ult' = [UGestion("_finalizar_grabacion", f.g) EXCEPT
                    !.ruta = f.ruta]
       /\ pasos' = pasos \o <<"detener_grabacion">>
                     \o (IF f.g.rename THEN <<"renombrar_archivo">>
                         ELSE <<>>)
       /\ IF f.g.exc THEN Seguir("vp_excepcion")
          ELSE IF f.g.ret THEN Seguir("vp_limpiar")
          ELSE Retornar(FALSE)
  /\ UNCHANGED <<driver, duracion_segundos>>
  /\ SinRun /\ UNCHANGED varsURL

\* _limpiar_antes_siguiente_video, then "return True".
VP_Limpiar ==
  /\ pc = "vp_limpiar"
  /\ \E up \in BOOLEAN, obedece \in BOOLEAN, cae \in BOOLEAN :
       LET a == asegurar_grabacion_detenida(Est(up, obedece), cae) IN
       /\ Poner(a.s)
       /\ ult' = [U("_limpiar_antes_siguiente_video") EXCEPT
                    !.stops = a.stops]
  /\ pasos' = pasos \o <<"asegurar_grabacion_detenida",
                         "salir_pantalla_completa", "cerrar_pestana_actual">>
  /\ Retornar(TRUE)
  /\ UNCHANGED <<driver, duracion_segundos, ruta_original, estadisticas>>
  /\ SinRun /\ UNCHANGED varsURL

\* except TimeoutException / except Exception: make sure the recording is
\* stopped, return False.
VP_Excepcion ==
  /\ pc = "vp_excepcion"
  /\ \E up \in BOOLEAN, obedece \in BOOLEAN, cae \in BOOLEAN :
       LET a == asegurar_grabacion_detenida(Est(up, obedece), cae) IN
       /\ Poner(a.s)
       /\ ult' = [U("asegurar_grabacion_detenida") EXCEPT
                    !.stops = a.stops]
  /\ Paso("asegurar_grabacion_detenida")
  /\ Retornar(FALSE)
  /\ UNCHANGED <<driver, duracion_segundos, ruta_original, estadisticas>>
  /\ SinRun /\ UNCHANGED varsURL

NextVP ==
  \/ VP_ConfigurarDirectorio
  \/ VP_IniciarGrabacion
  \/ VP_EsperarMargenInicial
  \/ VP_CargarUrl
  \/ VP_DetenerTrasCarga
  \/ VP_ReproducirVideo
  \/ VP_PantallaCompleta
  \/ VP_ObtenerInformacion
  \/ VP_Monitorear
  \/ VP_EsperarMargenFinal
  \/ VP_FinalizarGrabacion
  \/ VP_Limpiar
  \/ VP_Excepcion

SpecVP == InitVP /\ [][NextVP]_vars

(* ------------------ URLProcessor.parsear_archivo_urls ------------------ *)
MaxLineas == 4   \* lines of the URL file

\* A line is a sequence of pieces of text: "#", " ", a module name, "http",
\* a host, the rest of a URL, other text.
Lineas ==
  {<<>>,
   <<"#", "A">>,
   <<"#", " ", "B", " ">>,
   <<"#">>,
   <<"http", "youtube.com", "1">>,
   <<" ", "http", "YOUTU.BE", "2">>,
   <<"http", "vimeo.com", "3">>,
   <<"youtube.com", "4">>}

Archivos == UNION {[1..n -> Lineas] : n \in 0..MaxLineas}

\* str.lstrip(chars), str.rstrip(chars), str.strip() (white space)
RECURSIVE lstrip(_, _)
lstrip(l, chars) ==
  IF l # <<>> /\ Head(l) \in chars THEN lstrip(Tail(l), chars) ELSE l

RECURSIVE rstrip(_, _)
rstrip(l, chars) ==
  IF l # <<>> /\ l[Len(l)] \in chars
  THEN rstrip(SubSeq(l, 1, Len(l) - 1), chars) ELSE l

strip(l) == rstrip(lstrip(l, {" "}), {" "})

startswith(l, prefijo) == l # <<>> /\ Head(l) = prefijo

\* str.lower() of a piece of text
lower(t) == IF t = "YOUTU.BE" THEN "youtu.be" ELSE t

\* URLProcessor._validar_url_youtube
youtube_domains == {"youtube.com", "youtu.be", "www.youtube.com"}
validar_url_youtube(url) ==
  url # <<>> /\ \E i \in 1..Len(url) : lower(url[i]) \in youtube_domains

\* A dict is the sequence of its items, in insertion order.
Claves(d) == {d[i].nombre : i \in 1..Len(d)}
Posicion(d, k) == CHOOSE i \in 1..Len(d) : d[i].nombre = k

\* d[k] = v: a new key goes to the end, a known key keeps its place.
dict_set(d, k, v) ==
  IF k \in Claves(d) THEN [d EXCEPT ![Posicion(d, k)].urls = v]
  ELSE Append(d, [nombre |-> k, urls |-> v])

\* d[k].append(v)
dict_append(d, k, v) == [d EXCEPT ![Posicion(d, k)].urls = Append(@, v)]

\* d.get(k, [])
dict_get(d, k) == IF k \in Claves(d) THEN d[Posicion(d, k)].urls ELSE <<>>

\* modulo_actual when it is None or '': no module to store URLs under.
SinModulo == <<>>

\* The loop over the lines of the file, lines 73-104.
RECURSIVE ParsearLineas(_, _, _)
ParsearLineas(lineas, mods, modulo_actual) ==
  IF lineas = <<>> THEN mods
  ELSE
    LET linea == strip(Head(lineas))
        resto == Tail(lineas)
    IN IF linea = <<>> THEN ParsearLineas(resto, mods, modulo_actual)
       ELSE IF startswith(linea, "#")
       THEN LET nombre == strip(lstrip(linea, {"#", " "})) IN
            IF nombre # <<>>
            THEN ParsearLineas(resto, dict_set(mods, nombre, <<>>), nombre)
            ELSE ParsearLineas(resto, mods, nombre)
       ELSE IF modulo_actual # SinModulo /\ startswith(linea, "http")
       THEN IF validar_url_youtube(linea)
            THEN ParsearLineas(resto, dict_append(mods, modulo_actual, linea),
                               modulo_actual)
            ELSE ParsearLineas(resto, mods, modulo_actual)
       ELSE ParsearLineas(resto, mods, modulo_actual)

\* URLProcessor.parsear_archivo_urls: None (ret false) without modules.
parsear_archivo_urls(lineas, self_mods) ==
  LET mods == ParsearLineas(lineas, <<>>, SinModulo) IN
  IF mods = <<>> THEN [ret |-> FALSE, modulos |-> <<>>, self |-> self_mods]
  ELSE [ret |-> TRUE, modulos |-> mods, self |-> mods]

CfgNormal ==
  [MODO_PRUEBA |-> FALSE, MAX_MODULOS_PRUEBA |-> NoneInt,
   MAX_VIDEOS_POR_MODULO_PRUEBA |-> NoneInt,
   DURACION_MAXIMA_PRUEBA |-> NoneInt]

\* What the specifications of the URL functions never touch.
InitSinRun ==
  /\ obs_activa = FALSE /\ cliente_obs = None /\ conectado = FALSE
  /\ driver = None
  /\ modulos = <<>> /\ carpetas = {} /\ im = 0 /\ iv = 0
  /\ duracion_segundos = 0 /\ ruta_original = None
  /\ estadisticas = EstadisticasIniciales
  /\ pendiente = "no" /\ retorno = FALSE
  /\ ult = U("-") /\ vid = VidNuevo /\ hist = HistNuevo
  /\ pasos = <<>>

SinCambioRun ==
  UNCHANGED <<obs_activa, cliente_obs, conectado, driver, cfg, modulos,
              carpetas, im, iv, duracion_segundos, ruta_original,
              estadisticas, pendiente, vid, hist, pasos>>

InitParse ==
  /\ InitSinRun
  /\ cfg = CfgNormal
  /\ archivo \in Archivos
  /\ self_modulos = <<>>
  /\ fn = [arg |-> <<>>, arg_tras |-> <<>>, res |-> <<>>, hecho |-> FALSE]
  /\ pc = "url_parsear"

ParsearArchivo ==
  /\ pc = "url_parsear"
  /\ LET r == parsear_archivo_urls(archivo, self_modulos) IN
       /\ self_modulos' = r.self
       /\ retorno' = r.ret
       /\ ult' = [U("parsear_archivo_urls") EXCEPT !.ret = r.ret]
  /\ pc' = "url_fin"
  /\ UNCHANGED <<archivo, fn>>
  /\ SinCambioRun

NextParse ==
  \/ ParsearArchivo

SpecParse == InitParse /\ [][NextParse]_vars

(* ----------------------- aplicar_limites_prueba ------------------------ *)
\* s[:n] of a list, n >= 0
Rebanada(s, n) == SubSeq(s, 1, Min(n, Len(s)))

\* "for modulo, urls in d.items(): if len(urls) > n: d[modulo] = urls[:n]"
LimitarVideos(d, n) ==
  [i \in 1..Len(d) |->
     IF Len(d[i].urls) > n THEN [d[i] EXCEPT !.urls = Rebanada(@, n)]
     ELSE d[i]]

\* URLProcessor.aplicar_limites_prueba: the new value of self.modulos.
aplicar_limites_prueba_metodo(c, self_mods) ==
  IF ~c.MODO_PRUEBA THEN self_mods
  ELSE LET m1 == IF Truthy(c.MAX_MODULOS_PRUEBA)
                 THEN Rebanada(self_mods, c.MAX_MODULOS_PRUEBA)
                 ELSE self_mods
       IN IF Truthy(c.MAX_VIDEOS_POR_MODULO_PRUEBA)
          THEN LimitarVideos(m1, c.MAX_VIDEOS_POR_MODULO_PRUEBA)
          ELSE m1

\* dict.copy(): a new dict object with the same items; es_arg tells whether
\* the object written to is the caller's dict.
dict_copy(d) == [d |-> d, es_arg |-> FALSE]

\* url_filters.aplicar_limites_prueba: the value returned and the value of
\* the argument after the call.
aplicar_limites_prueba(c, mods) ==
  IF ~c.MODO_PRUEBA THEN [res |-> mods, arg |-> mods]
  ELSE
    LET modulos_limitados == dict_copy(mods)
        m1 == IF Truthy(c.MAX_MODULOS_PRUEBA)
              THEN [d |-> Rebanada(modulos_limitados.d, c.MAX_MODULOS_PRUEBA),
                    es_arg |-> FALSE]
              ELSE modulos_limitados
        m2 == IF Truthy(c.MAX_VIDEOS_POR_MODULO_PRUEBA)
              THEN [m1 EXCEPT
                      !.d = LimitarVideos(@, c.MAX_VIDEOS_POR_MODULO_PRUEBA)]
              ELSE m1
    IN [res |-> m2.d, arg |-> IF m2.es_arg THEN m2.d ELSE mods]

\* The values of the two limits: None, 0 and positive numbers.
Limites == {NoneInt} \cup (0..MaxVideos)

CfgsLim ==
  {CfgNormal} \cup
  [MODO_PRUEBA : {TRUE}, MAX_MODULOS_PRUEBA : Limites,
   MAX_VIDEOS_POR_MODULO_PRUEBA : Limites, DURACION_MAXIMA_PRUEBA : {NoneInt}]

UrlsLim == {<<"http", "youtube.com", "1">>, <<"http", "youtu.be", "2">>}
ListasLim == UNION {[1..n -> UrlsLim] : n \in 0..MaxVideos}

\* The module maps a parse can give: one module at least, no name twice.
MapasLim ==
  {d \in UNION {[1..n -> [nombre : {<<k>> : k \in 1..MaxModulos},
                          urls : ListasLim]] : n \in 1..MaxModulos} :
     \A i, j \in 1..Len(d) : d[i].nombre = d[j].nombre => i = j}

InitLim ==
  /\ InitSinRun
  /\ cfg \in CfgsLim
  /\ archivo = <<>>
  /\ self_modulos \in MapasLim
  /\ fn = [arg |-> <<>>, arg_tras |-> <<>>, res |-> <<>>, hecho |-> FALSE]
  /\ pc = "lim_funcion"

\* url_filters.aplicar_limites_prueba(modulos) on the parsed map
LimitarConFuncion ==
  /\ pc = "lim_funcion"
  /\ LET r == aplicar_limites_prueba(cfg, self_modulos) IN
       /\ fn' = [arg |-> self_modulos, arg_tras |-> r.arg, res |-> r.res,
                 hecho |-> TRUE]
       /\ self_modulos' = r.arg
  /\ ult' = U("url_filters.aplicar_limites_prueba")
  /\ pc' = "lim_metodo"
  /\ UNCHANGED <<archivo, retorno>>
  /\ SinCambioRun

\* url_processor.aplicar_limites_prueba() on a processor holding the same map
LimitarConMetodo ==
  /\ pc = "lim_metodo"
  /\ self_modulos' = aplicar_limites_prueba_metodo(cfg, fn.arg)
  /\ ult' = U("URLProcessor.aplicar_limites_prueba")
  /\ pc' = "lim_fin"
  /\ UNCHANGED <<archivo, fn, retorno>>
  /\ SinCambioRun

NextLim ==
  \/ LimitarConFuncion
  \/ LimitarConMetodo

SpecLim == InitLim /\ [][NextLim]_vars

(* ------------------------- aplicar_inicio_video ------------------------ *)
\* config.INICIO_VIDEO_POR_MODULO: None, or a dict whose items are
\* [nombre, inicio]; dict.get(k) is None for a key the dict has not.
DictNone == [es_dict |-> FALSE, items |-> <<>>]

inicio_get(d, k) ==
  IF \E i \in 1..Len(d.items) : d.items[i].nombre = k
  THEN d.items[CHOOSE i \in 1..Len(d.items) : d.items[i].nombre = k].inicio
  ELSE NoneInt

\* "if config.INICIO_VIDEO_POR_MODULO": None and the empty dict are false.
TruthyDict(d) == d.es_dict /\ d.items # <<>>

\* urls[inicio - 1:], inicio >= 1
Desde(urls, inicio) == SubSeq(urls, inicio, Len(urls))

\* Lines 100-109 and 115-122: one module under a configured start index.
RecortarModulo(m, inicio) ==
  IF inicio # NoneInt /\ inicio > 1
  THEN IF inicio <= Len(m.urls)
       THEN [mod |-> [m EXCEPT !.urls = Desde(@, inicio)], indice |-> inicio]
       ELSE [mod |-> m, indice |-> 1]
  ELSE [mod |-> m, indice |-> 1]

\* Lines 126-129: a module that starts from its first video.
SinRecortar(m) == [mod |-> m, indice |-> 1]

\* url_filters.aplicar_inicio_video: the dict of start indices returned and
\* the argument after the call (it is modified in place).
aplicar_inicio_video(c, mods) ==
  LET r == IF TruthyDict(c.INICIO_VIDEO_POR_MODULO)
              /\ c.INICIO_VIDEO_POR_MODULO.es_dict
           THEN [i \in 1..Len(mods) |->
                   RecortarModulo(mods[i],
                     inicio_get(c.INICIO_VIDEO_POR_MODULO, mods[i].nombre))]
           ELSE IF Truthy(c.INICIO_VIDEO) /\ c.INICIO_VIDEO > 1
           THEN [i \in 1..Len(mods) |->
                   IF i = 1 THEN RecortarModulo(mods[i], c.INICIO_VIDEO)
                   ELSE SinRecortar(mods[i])]
           ELSE [i \in 1..Len(mods) |-> SinRecortar(mods[i])]
  IN [res |-> [i \in 1..Len(mods) |->
                 [nombre |-> mods[i].nombre, indice |-> r[i].indice]],
      arg |-> [i \in 1..Len(mods) |-> r[i].mod]]

\* Start indices a configuration can hold: None, 0, 1 and up to one past the
\* longest list.
Inicios == {NoneInt} \cup (0..(MaxVideos + 1))

NombresIni == {<<k>> : k \in 1..MaxModulos}

\* Increasing sequences of module names.
ClavesIni ==
  {ks \in UNION {[1..n -> NombresIni] : n \in 0..MaxModulos} :
     \A i, j \in 1..Len(ks) : i < j => ks[i][1] < ks[j][1]}

DictsIni ==
  {DictNone} \cup
  {[es_dict |-> TRUE,
    items |-> [i \in 1..Len(ks) |-> [nombre |-> ks[i], inicio |-> v[i]]]] :
     <<ks, v>> \in {p \in ClavesIni \X UNION {[1..n -> Inicios] :
                                               n \in 0..MaxModulos} :
                      Len(p[1]) = Len(p[2])}}

CfgsIni == [INICIO_VIDEO : Inicios, INICIO_VIDEO_POR_MODULO : DictsIni]

\* Module maps: one module at least, the URLs of a module numbered from 1.
MapasIni ==
  {[i \in 1..Len(ks) |->
      [nombre |-> ks[i], urls |-> [j \in 1..n[i] |-> j]]] :
     <<ks, n>> \in {p \in (ClavesIni \ {<<>>}) \X
                            UNION {[1..k -> 0..MaxVideos] :
                                     k \in 1..MaxModulos} :
                      Len(p[1]) = Len(p[2])}}

InitIni ==
  /\ InitSinRun
  /\ cfg \in CfgsIni
  /\ archivo = <<>>
  /\ self_modulos \in MapasIni
  /\ fn = [arg |-> <<>>, arg_tras |-> <<>>, res |-> <<>>, hecho |-> FALSE]
  /\ pc = "ini_aplicar"

\* url_filters.aplicar_inicio_video(modulos)
AplicarInicio ==
  /\ pc = "ini_aplicar"
  /\ LET r == aplicar_inicio_video(cfg, self_modulos) IN
       /\ fn' = [arg |-> self_modulos, arg_tras |-> r.arg, res |-> r.res,
                 hecho |-> TRUE]
       /\ self_modulos' = r.arg
  /\ ult' = U("aplicar_inicio_video")
  /\ pc' = "ini_fin"
  /\ UNCHANGED <<archivo, retorno>>
  /\ SinCambioRun

NextIni ==
  \/ AplicarInicio

SpecIni == InitIni /\ [][NextIni]_vars

(* --------------------- parsear_duracion_a_segundos --------------------- *)
MaxLargo == 7   \* characters of a duration string

\* A string is the sequence of its characters.
Digitos == {"1", "2"}
CaracteresDur == Digitos \cup {":", " ", "x"}
Cadenas(alfabeto, n) == UNION {[1..k -> alfabeto] : k \in 0..n}

\* str.split(sep): the fields between the separators, empty ones included.
RECURSIVE split(_, _)
split(str, sep) ==
  IF \A i \in 1..Len(str) : str[i] # sep THEN <<str>>
  ELSE LET k == CHOOSE i \in 1..Len(str) :
                  str[i] = sep /\ \A j \in 1..(i - 1) : str[j] # sep
       IN <<SubSeq(str, 1, k - 1)>> \o split(SubSeq(str, k + 1, Len(str)), sep)

ValorDigito(c) == IF c = "1" THEN 1 ELSE 2

\* int(p) raises ValueError unless p, white space at its ends apart, is a
\* non-empty run of digits.
int_valido(p) ==
  LET t == strip(p) IN t # <<>> /\ \A i \in 1..Len(t) : t[i] \in Digitos

RECURSIVE int_digitos(_)
int_digitos(t) ==
  IF t = <<>> THEN 0
  ELSE 10 * int_digitos(SubSeq(t, 1, Len(t) - 1)) + ValorDigito(t[Len(t)])

int(p) == int_digitos(strip(p))

\* "if p.strip()" of the list comprehension at line 71
NoBlanca_todas(p) == TRUE
NoBlanca(p) == strip(p) # <<>>

\* utils.parsear_duracion_a_segundos
parsear_duracion_a_segundos(duration_str) ==
  IF duration_str = <<>> \/ strip(duration_str) = <<>> THEN 0
  ELSE
    LET partes_str == split(strip(duration_str), ":")
        por_convertir == SelectSeq(partes_str, NoBlanca)
    IN IF \E i \in 1..Len(por_convertir) : ~int_valido(por_convertir[i])
       THEN 0
       ELSE LET partes == [i \in 1..Len(por_convertir) |->
                             int(por_convertir[i])]
            IN IF Len(partes) = 3
               THEN partes[1] * 3600 + partes[2] * 60 + partes[3]
               ELSE IF Len(partes) = 2 THEN partes[1] * 60 + partes[2]
               ELSE IF Len(partes) = 1 THEN partes[1]
               ELSE 0

InitDur ==
  /\ InitSinRun
  /\ cfg = CfgNormal
  /\ archivo = <<>> /\ self_modulos = <<>>
  /\ \E str \in Cadenas(CaracteresDur, MaxLargo) :
       fn = [arg |-> str, arg_tras |-> str, res |-> 0, hecho |-> FALSE]
  /\ pc = "dur_parsear"

ParsearDuracion ==
  /\ pc = "dur_parsear"
  /\ fn' = [fn EXCEPT !.res = parsear_duracion_a_segundos(fn.arg),
                      !.hecho = TRUE]
  /\ ult' = U("parsear_duracion_a_segundos")
  /\ pc' = "dur_fin"
  /\ UNCHANGED <<archivo, self_modulos, retorno>>
  /\ SinCambioRun

NextDur ==
  \/ ParsearDuracion

SpecDur == InitDur /\ [][NextDur]_vars

(* ----------------------- sanitizar_nombre_archivo ---------------------- *)
MaxTitulo == 3   \* characters of a title besides its run of letters

LARGO_MAXIMO == 150

\* The character classes of the two regular expressions.
EspaciosBarraDosPuntos == {" ", "\t", "\n", "|", ":"}
NoValidos == {"\\", "/", "*", "?", "\"", "<", ">", "|"}

\* re.sub(r'[\s|:]+', '_', nombre): every maximal run of characters of the
\* class becomes one '_'.
re_sub_runs(nombre, clase, por) ==
  LET inicia(i) == nombre[i] \in clase /\ (i = 1 \/ nombre[i - 1] \notin clase)
      queda == SelectSeq([i \in 1..Len(nombre) |-> i],
                         LAMBDA i : nombre[i] \notin clase \/ inicia(i))
  IN [j \in 1..Len(queda) |->
        IF nombre[queda[j]] \in clase THEN por ELSE nombre[queda[j]]]

\* re.sub(r'[\\/*?"<>|]', "", nombre): the characters of the class go away.
re_sub_borrar(nombre, clase) == SelectSeq(nombre, LAMBDA c : c \notin clase)

\* utils.sanitizar_nombre_archivo, for a title that is a str.
sanitizar_nombre_archivo_sin_borrar(nombre) == Rebanada(re_sub_runs(nombre, EspaciosBarraDosPuntos, "_"), LARGO_MAXIMO)
sanitizar_nombre_archivo(nombre) == Rebanada(re_sub_borrar(re_sub_runs(nombre, EspaciosBarraDosPuntos, "_"), NoValidos), LARGO_MAXIMO)

CaracteresTitulo == {" ", "|", ":", "/", "a", "_"}

\* Runs of letters: none, and around the maximal length of a name.
Rellenos == {0, LARGO_MAXIMO - 1, LARGO_MAXIMO, LARGO_MAXIMO + 1}
Relleno(k) == [i \in 1..k |-> "a"]

\* Titles: some characters, a run of letters, some characters.
Titulos ==
  {p[1] \o Relleno(k) \o p[2] :
     p \in {q \in Cadenas(CaracteresTitulo, MaxTitulo)
                  \X Cadenas(CaracteresTitulo, MaxTitulo) :
              Len(q[1]) + Len(q[2]) <= MaxTitulo},
     k \in Rellenos}

InitNom ==
  /\ InitSinRun
  /\ cfg = CfgNormal
  /\ archivo = <<>> /\ self_modulos = <<>>
  /\ \E titulo \in Titulos :
       fn = [arg |-> titulo, res |-> <<>>, otra |-> <<>>, hecho |-> FALSE]
  /\ pc = "nom_sanitizar"

\* nombre_archivo_saneado = sanitizar_nombre_archivo(titulo_video)
Sanitizar ==
  /\ pc = "nom_sanitizar"
  /\ fn' = [fn EXCEPT !.res = sanitizar_nombre_archivo(fn.arg),
                      !.hecho = TRUE]
  /\ ult' = U("sanitizar_nombre_archivo")
  /\ pc' = "nom_otra_vez"
  /\ UNCHANGED <<archivo, self_modulos, retorno>>
  /\ SinCambioRun

\* sanitizar_nombre_archivo applied to the name it has returned
SanitizarOtraVez ==
  /\ pc = "nom_otra_vez"
  /\ fn' = [fn EXCEPT !.otra = sanitizar_nombre_archivo(fn.res)]
  /\ ult' = U("sanitizar_nombre_archivo(resultado)")
  /\ pc' = "nom_fin"
  /\ UNCHANGED <<archivo, self_modulos, retorno>>
  /\ SinCambioRun

NextNom ==
  \/ Sanitizar
  \/ SanitizarOtraVez

SpecNom == InitNom /\ [][NextNom]_vars

(* --------------------------- formatear_tiempo -------------------------- *)
\* The text returned is the sequence of its components "<valor> <unidad>",
\* which the f-strings join with " y ".
Componente(valor, unidad) == [valor |-> valor, unidad |-> unidad]

\* utils.formatear_tiempo
formatear_tiempo(segundos) ==
  IF segundos < 60 THEN <<Componente(segundos, "segundo(s)")>>
  ELSE
    LET minutos == segundos \div 60
        segundos_restantes == segundos % 60
    IN IF minutos < 60
       THEN IF segundos_restantes > 0
            THEN <<Componente(minutos, "minuto(s)"),
                   Componente(segundos_restantes, "segundo(s)")>>
            ELSE <<Componente(minutos, "minuto(s)")>>
       ELSE
         LET horas == minutos \div 60
             minutos_restantes == minutos % 60
         IN IF horas < 24
            THEN IF minutos_restantes > 0
                 THEN <<Componente(horas, "hora(s)"),
                        Componente(minutos_restantes, "minuto(s)")>>
                 ELSE <<Componente(horas, "hora(s)")>>
            ELSE
              LET dias == horas \div 24
                  horas_restantes == horas % 24
              IN IF horas_restantes > 0
                 THEN <<Componente(dias, "día(s)"),
                        Componente(horas_restantes, "hora(s)")>>
                 ELSE <<Componente(dias, "día(s)")>>

\* Durations to format: every mix of zero and non-zero days, hours, minutes
\* and seconds, 3665 among them.
SegundosTotales ==
  {86400 * d + 3600 * h + 60 * m + sg :
     d \in 0..2, h \in {0, 1, 23}, m \in {0, 1, 59}, sg \in {0, 5, 59}}

InitTiempo ==
  /\ InitSinRun
  /\ cfg = CfgNormal
  /\ archivo = <<>> /\ self_modulos = <<>>
  /\ \E segundos \in SegundosTotales :
       fn = [arg |-> segundos, arg_tras |-> segundos, res |-> <<>>,
             hecho |-> FALSE]
  /\ pc = "tiempo_formatear"

\* tiempo_formateado = formatear_tiempo(duracion_total_segundos)
FormatearTiempo ==
  /\ pc = "tiempo_formatear"
  /\ fn' = [fn EXCEPT !.res = formatear_tiempo(fn.arg), !.hecho = TRUE]
  /\ ult' = U("formatear_tiempo")
  /\ pc' = "tiempo_fin"
  /\ UNCHANGED <<archivo, self_modulos, retorno>>
  /\ SinCambioRun

NextTiempo ==
  \/ FormatearTiempo

SpecTiempo == InitTiempo /\ [][NextTiempo]_vars

(* ============================== claims ================================= *)
EnLlamada(op) == ult.op = op

\* C1: every execution of procesar_video that returns True has made the
\* steps once each and in this order: configure the OBS directory, start the
\* recording, initial margin, load the URL, play, fullscreen, title and
\* duration, monitor, final margin, stop the recording, rename the file,
\* cleanup (recording stopped, fullscreen left, tab closed).
C1_Theorem == (pc = "vp_fin" /\ retorno) => pasos = OrdenDePasos

C1_Witness ==
  /\ pc = "vp_fin" /\ retorno /\ Len(pasos) = Len(OrdenDePasos)
  /\ estadisticas.videos_grabados = 1 /\ cfg.MODO_PRUEBA

\* The calls of the two gestionar methods.
GestionFM == EnLlamada("gestionar_archivo_grabado")
GestionOrq == EnLlamada("_gestionar_archivo_grabado")

\* What both methods do whatever the number of checks: the rename and the
\* delete only after a check saw the file; without one, nothing is renamed,
\* deleted or counted, and FileManager's method returns False.
C3_Comun ==
  (GestionFM \/ GestionOrq) =>
    /\ ult.rename => ult.existe
    /\ ult.unlink => ult.existe
    /\ ~ult.existe => ~ult.rename /\ ~ult.unlink /\ ~ult.contado

\* Without a successful check the statistics stay as they were.
C3_SinCambio ==
  (ult'.op \in {"gestionar_archivo_grabado", "_gestionar_archivo_grabado"}
     /\ ~ult'.existe) => estadisticas' = estadisticas

C2_Original ==
  /\ EnLlamada("cargar_url") => vid.ini
  /\ EnLlamada("detener_grabacion") =>
       vid.monitoreado = duracion_segundos /\ vid.margen

\* C2 (amended): cargar_url is invoked only after iniciar_grabacion returned
\* True for the video; detener_grabacion is invoked by the loop either right
\* after cargar_url returned False for the video, nothing having been
\* monitored, or after the monitoring of the full effective duration and the
\* final margin wait.
C2_Theorem ==
  /\ EnLlamada("cargar_url") => vid.ini
  /\ EnLlamada("detener_grabacion") =>
       /\ vid.ini
       /\ \/ vid.carga = "falla" /\ vid.monitoreado = -1 /\ ~vid.margen
          \/ /\ vid.carga = "ok" /\ vid.margen
             /\ duracion_segundos > 0
             /\ vid.monitoreado = duracion_segundos

C2_Witness ==
  /\ EnLlamada("detener_grabacion") /\ vid.carga = "ok"
  /\ vid.monitoreado = 3 /\ vid.margen /\ iv = 2

\* The statistics agree with what was counted.
C4_Inv ==
  /\ estadisticas.videos_grabados = Len(estadisticas.archivos_grabados)
  /\ estadisticas.videos_grabados = Len(hist.contados)
  /\ estadisticas.duracion_total_segundos = Suma(hist.contados)

\* A step that counts one renamed file.
C4_PorRename ==
  /\ ult'.op = "_gestionar_archivo_grabado"
  /\ ult'.rename_ok /\ ult'.dest_existe
  /\ estadisticas'.videos_grabados = estadisticas.videos_grabados + 1
  /\ estadisticas'.duracion_total_segundos =
       estadisticas.duracion_total_segundos + duracion_segundos
  /\ estadisticas'.tamano_total_bytes =
       estadisticas.tamano_total_bytes + ult'.tamano
  /\ estadisticas'.archivos_grabados =
       Append(estadisticas.archivos_grabados, <<im, iv>>)

\* A step of the final summary that raises the total size only.
C4_PorResumen ==
  /\ ult'.op = "_mostrar_resumen_final"
  /\ estadisticas'.tamano_total_bytes > estadisticas.tamano_total_bytes
  /\ estadisticas' =
       [estadisticas EXCEPT
          !.tamano_total_bytes = estadisticas'.tamano_total_bytes]

\* C4 (as stated): videos_grabados is the length of archivos_grabados and
\* duracion_total_segundos the sum of the counted durations, and the four
\* fields change only in a step where a rename succeeded and the destination
\* exists, by one video, its duration, its size and its path.
C4_Original ==
  /\ []C4_Inv
  /\ [][estadisticas' # estadisticas => C4_PorRename]_vars

\* C4 (amended): as stated, except that tamano_total_bytes is also raised by
\* _mostrar_resumen_final to the size found in the module folders when that
\* is greater; the other three fields change only with a counted rename.
C4_Theorem ==
  /\ []C4_Inv
  /\ [][estadisticas' # estadisticas => C4_PorRename \/ C4_PorResumen]_vars

C4_Witness ==
  /\ pc = "limpiar" /\ estadisticas.videos_grabados = 2
  /\ estadisticas.duracion_total_segundos = 63
  /\ estadisticas.tamano_total_bytes = 9

\* C5: without a user interrupt, once the loop over the modules is entered
\* every module of the map is attempted, and iniciar_grabacion is attempted
\* exactly once for every URL of every module whose folder exists and whose
\* OBS directory was set, however the earlier videos and modules ended; no
\* URL is ever attempted twice.
C5_Theorem ==
  /\ \A p \in Pares : hist.intentos[p] <= 1
  /\ (pc \in {"resumen", "limpiar", "handler", "fin"}
        /\ hist.en_bucle /\ ~hist.interrumpido) =>
       /\ hist.intentados = 1..Len(modulos)
       /\ \A m \in hist.configurados :
            \A i \in 1..modulos[m] : hist.intentos[<<m, i>>] = 1

C5_Witness ==
  /\ pc = "fin" /\ hist.en_bucle /\ ~hist.interrumpido
  /\ modulos = <<1, 1>> /\ carpetas = {1, 2} /\ hist.configurados = {2}
  /\ hist.intentos[<<2, 1>>] = 1
  /\ estadisticas.videos_grabados = 0

\* C6: when ejecutar has returned, the OBS manager is disconnected if the
\* connection had succeeded, and the browser is closed if it had been
\* initialised.
C6_Theorem ==
  pc = "fin" =>
    /\ hist.obs_conecto => cliente_obs = None /\ ~conectado
    /\ hist.nav_inicializado => driver = None

C6_Witness ==
  /\ pc = "fin" /\ hist.obs_conecto /\ hist.nav_inicializado
  /\ hist.interrumpido /\ ~retorno /\ hist.intentos[<<1, 2>>] = 1

\* A module header line, '#name', and its name.
NombreDe(l) == strip(lstrip(strip(l), {"#", " "}))
EsCabecera(l) == startswith(strip(l), "#") /\ NombreDe(l) # <<>>

\* A URL line the validator accepts.
EsUrlAceptada(l) ==
  startswith(strip(l), "http") /\ validar_url_youtube(strip(l))

\* The header line that most recently precedes line i (0: none).
UltimaCabecera(f, i) ==
  LET c == {j \in 1..(i - 1) : EsCabecera(f[j])} IN
  IF c = {} THEN 0 ELSE CHOOSE j \in c : \A k \in c : k <= j

\* The accepted URL lines of the first n lines that follow a header of the
\* module nombre, in file order.
RECURSIVE Esperadas(_, _, _)
Esperadas(f, nombre, n) ==
  IF n = 0 THEN <<>>
  ELSE LET u == UltimaCabecera(f, n) IN
       IF EsUrlAceptada(f[n]) /\ u # 0 /\ NombreDe(f[IF u = 0 THEN 1 ELSE u])
                                            = nombre
       THEN Append(Esperadas(f, nombre, n - 1), strip(f[n]))
       ELSE Esperadas(f, nombre, n - 1)

\* C9 (as stated): parsear_archivo_urls stores every accepted URL line, in
\* file order, under the module whose header most recently preceded it and
\* under no other; URL lines before the first header are dropped; no accepted
\* URL that follows a header is missing.
C9_Claim ==
  pc = "url_fin" =>
    /\ Claves(self_modulos) =
         {NombreDe(archivo[i]) :
            i \in {j \in 1..Len(archivo) : EsCabecera(archivo[j])}}
    /\ \A k \in Claves(self_modulos) :
         dict_get(self_modulos, k) = Esperadas(archivo, k, Len(archivo))

\* The first n items of a sequence, all of them when the limit is None.
Primeros(s, n) == IF n = NoneInt THEN s ELSE SubSeq(s, 1, Min(n, Len(s)))

\* The map the limits of c leave of the map d.
LimitesEsperados(c, d) ==
  IF ~c.MODO_PRUEBA THEN d
  ELSE LET m == Primeros(d, c.MAX_MODULOS_PRUEBA) IN
       [i \in 1..Len(m) |->
          [m[i] EXCEPT !.urls = Primeros(@, c.MAX_VIDEOS_POR_MODULO_PRUEBA)]]

\* C10 (as stated): in test mode aplicar_limites_prueba leaves exactly the
\* first MAX_MODULOS_PRUEBA modules, each with exactly the first
\* MAX_VIDEOS_POR_MODULO_PRUEBA of its URLs, None meaning no limit; with the
\* test mode off the map is unchanged; the method and the function give the
\* same result, and the function leaves its argument as it was.
C10_Claim ==
  pc = "lim_fin" =>
    /\ self_modulos = LimitesEsperados(cfg, fn.arg)
    /\ fn.res = self_modulos
    /\ fn.arg_tras = fn.arg

\* C7 (as stated): iniciar_grabacion returns True only when one of the polls
\* made after start_record reported output_active, and False when none of
\* the 10 polls did.
C7_Claim ==
  EnLlamada("iniciar_grabacion") =>
    /\ ult.ret => ult.visto
    /\ (ult.sondeos = MAX_SONDEOS /\ ~ult.visto) => ~ult.ret

\* C8 (as stated): after asegurar_grabacion_detenida on an OBS that is
\* reachable, recording and obeying stop_record, OBS is not recording; when
\* no recording is active no stop_record is sent.
C8_Claim ==
  EnLlamada("asegurar_grabacion_detenida") =>
    /\ (ult.post.up /\ ult.pre.activa /\ ult.pre.obedece) => ~ult.post.activa
    /\ ~ult.pre.activa => ult.stops = 0

\* What the configuration asks for module i of a map: the entry of
\* INICIO_VIDEO_POR_MODULO when that dict is defined, else INICIO_VIDEO for
\* the first module, else nothing.
InicioConfigurado(c, mods, i) ==
  IF c.INICIO_VIDEO_POR_MODULO.es_dict
  THEN inicio_get(c.INICIO_VIDEO_POR_MODULO, mods[i].nombre)
  ELSE IF i = 1 THEN c.INICIO_VIDEO ELSE NoneInt

\* The start index the configuration gives module i.
InicioEsperado(c, mods, i) ==
  LET k == InicioConfigurado(c, mods, i) IN
  IF k # NoneInt /\ k > 1 /\ k <= Len(mods[i].urls) THEN k ELSE 1

\* C11: after aplicar_inicio_video every module has a start index s >= 1, its
\* list is the original one from position s on, s > 1 only when the configured
\* start is at most the number of URLs, a defined INICIO_VIDEO_POR_MODULO
\* takes priority over INICIO_VIDEO, which otherwise applies to the first
\* module only.
C11_Claim ==
  fn.hecho /\ EnLlamada("aplicar_inicio_video") =>
    /\ Len(fn.res) = Len(fn.arg) /\ Len(fn.arg_tras) = Len(fn.arg)
    /\ \A i \in 1..Len(fn.arg) :
         LET s == fn.res[i].indice IN
         /\ fn.res[i].nombre = fn.arg[i].nombre
         /\ fn.arg_tras[i].nombre = fn.arg[i].nombre
         /\ s >= 1
         /\ fn.arg_tras[i].urls = Desde(fn.arg[i].urls, s)
         /\ s > 1 => InicioConfigurado(cfg, fn.arg, i) <= Len(fn.arg[i].urls)
         /\ s = InicioEsperado(cfg, fn.arg, i)

\* A duration string read as the claim reads it: its fields between colons.
Campos(str) == split(str, ":")

\* A field that writes a non-negative integer in decimal digits.
EsNumero(p) == p # <<>> /\ \A i \in 1..Len(p) : p[i] \in Digitos

RECURSIVE ValorNumero(_)
ValorNumero(p) ==
  IF p = <<>> THEN 0
  ELSE 10 * ValorNumero(SubSeq(p, 1, Len(p) - 1))
       + (IF p[Len(p)] = "1" THEN 1 ELSE 2)

EsBlanca(str) == \A i \in 1..Len(str) : str[i] = " "

\* 'h:m:s', 'm:s' and 's' give 3600*h + 60*m + s, 60*m + s and s.
C12_Formatos ==
  LET c == Campos(fn.arg) IN
  (\A i \in 1..Len(c) : EsNumero(c[i])) =>
    /\ Len(c) = 3 => fn.res = 3600 * ValorNumero(c[1])
                              + 60 * ValorNumero(c[2]) + ValorNumero(c[3])
    /\ Len(c) = 2 => fn.res = 60 * ValorNumero(c[1]) + ValorNumero(c[2])
    /\ Len(c) = 1 => fn.res = ValorNumero(c[1])

\* 0 for an empty or blank string and for a part that is not numeric (a part
\* that is neither blank nor digits between white space).
C12_Ceros ==
  /\ EsBlanca(fn.arg) => fn.res = 0
  /\ (\E i \in 1..Len(Campos(fn.arg)) :
        ~EsBlanca(Campos(fn.arg)[i]) /\ ~EsNumero(strip(Campos(fn.arg)[i])))
       => fn.res = 0

\* C12 as stated: the three formats convert as documented, and the result is
\* 0 for a blank string, for a non-numeric part and whenever the string has
\* more than three parts between its colons.
C12_Original ==
  fn.hecho /\ EnLlamada("parsear_duracion_a_segundos") =>
    /\ C12_Formatos
    /\ C12_Ceros
    /\ Len(Campos(fn.arg)) > 3 => fn.res = 0

\* The parts of a string that are not blank, without the white space at
\* their ends.
PartesNoBlancas(str) ==
  LET c == SelectSeq(Campos(str), LAMBDA p : ~EsBlanca(p)) IN
  [i \in 1..Len(c) |-> strip(c[i])]

\* C12: the three formats convert as documented, and the result is 0 for a
\* blank string, for a non-numeric part and for more than three parts that
\* are not blank; blank parts are dropped before the parts are counted and
\* converted, so '2:::' gives 2.
C12_Theorem ==
  fn.hecho /\ EnLlamada("parsear_duracion_a_segundos") =>
    /\ C12_Formatos
    /\ C12_Ceros
    /\ LET c == PartesNoBlancas(fn.arg) IN
       /\ Len(c) > 3 => fn.res = 0
       /\ (\A i \in 1..Len(c) : EsNumero(c[i])) =>
            /\ Len(c) = 3 => fn.res = 3600 * ValorNumero(c[1])
                                      + 60 * ValorNumero(c[2])
                                      + ValorNumero(c[3])
            /\ Len(c) = 2 => fn.res = 60 * ValorNumero(c[1])
                                      + ValorNumero(c[2])
            /\ Len(c) = 1 => fn.res = ValorNumero(c[1])

\* '1:2:12' has been converted to 3732 seconds.
C12_Witness ==
  /\ fn.hecho /\ EnLlamada("parsear_duracion_a_segundos")
  /\ fn.arg = <<"1", ":", "2", ":", "1", "2">>
  /\ fn.res = 3732

\* White space and the characters the claim names: \ / * ? " < > | :
Prohibidos == {" ", "\t", "\n", "\\", "/", "*", "?", "\"", "<", ">", "|", ":"}

\* C13: the name sanitizar_nombre_archivo returns has at most 150 characters,
\* no white space and none of \ / * ? " < > | :, and the function applied to
\* its own result returns it unchanged.
C13_Theorem ==
  /\ fn.hecho /\ pc \in {"nom_otra_vez", "nom_fin"} =>
       /\ Len(fn.res) <= 150
       /\ \A i \in 1..Len(fn.res) : fn.res[i] \notin Prohibidos
  /\ pc = "nom_fin" => fn.otra = fn.res

\* A title longer than 150 characters with white space, ':' and '/' in it
\* has been cut to a name of 150 characters, and sanitized again.
C13_Witness ==
  /\ pc = "nom_fin" /\ EnLlamada("sanitizar_nombre_archivo(resultado)")
  /\ Len(fn.arg) > 150 /\ Len(fn.res) = 150
  /\ \E i \in 1..Len(fn.arg) : fn.arg[i] = " "
  /\ \E i \in 1..Len(fn.arg) : fn.arg[i] = ":"
  /\ \E i \in 1..Len(fn.arg) : fn.arg[i] = "/"
  /\ fn.res # fn.arg

\* The days, hours, minutes and seconds of a duration.
Desglose(segundos) ==
  <<Componente(segundos \div 86400, "día(s)"),
    Componente((segundos \div 3600) % 24, "hora(s)"),
    Componente((segundos \div 60) % 60, "minuto(s)"),
    Componente(segundos % 60, "segundo(s)")>>

\* C14: formatear_tiempo drops no component that is not zero: the text for
\* 3665 is '1 hora(s) y 1 minuto(s) y 5 segundo(s)', and the text for an hour
\* or more still states the remaining minutes and the remaining seconds.
C14_Claim ==
  fn.hecho /\ EnLlamada("formatear_tiempo") =>
    /\ \A i \in 1..4 :
         Desglose(fn.arg)[i].valor # 0 =>
           \E j \in 1..Len(fn.res) : fn.res[j] = Desglose(fn.arg)[i]
    /\ fn.arg = 3665 =>
         fn.res = <<Componente(1, "hora(s)"), Componente(1, "minuto(s)"),
                    Componente(5, "segundo(s)")>>

\* The final clean-up spoke to an OBS that stayed reachable and stops
\* recording whenever it receives stop_record.
LimpiezaConOBS ==
  EnLlamada("_limpiar_recursos") /\ ult.pre.up /\ ult.pre.obedece

\* C15: when ejecutar returns after having connected to OBS, with OBS
\* reachable and obeying stop_record during the final clean-up, OBS is not
\* recording, whatever failed earlier in the run.
C15_Claim ==
  pc = "fin" /\ hist.obs_conecto /\ LimpiezaConOBS => ~obs_activa

====
